---- MODULE Spec2Model ----
(***************************************************************************)
(* Media delivery layer of the file-to-link server: the identifier codec  *)
(* (utils/crypto_utils.py), the metadata cache and the request handlers    *)
(* (web_server.py FileServer), and the byte-range handler.                 *)
(*                                                                         *)
(* Conventions.  A Python str is a sequence of Unicode code points, a      *)
(* Python bytes object a sequence of 0..255.  An Optional value is None    *)
(* (the empty tuple) or Some(v) (the one-element tuple holding v).  Exc    *)
(* stands for "an exception was raised" inside a try block.                *)
(***************************************************************************)
EXTENDS Integers, Sequences, FiniteSets, TLC

VARIABLES
    SECRET_KEY, \* Config.SECRET_KEY, fixed for the life of the process
    cinput,     \* the string handed to the codec by its caller
    ctoken,     \* the token handed to decrypt_id
    cfrom,      \* where ctoken came from: "encrypted", "raw" or "tampered"
    cresult,    \* what decrypt_id returned (or Exc if an exception escaped it)
    cpc         \* position of the codec scenario

codecVars == <<SECRET_KEY, cinput, ctoken, cfrom, cresult, cpc>>

VARIABLES
    now,            \* time.time(), in seconds since the process started
    file_cache,     \* FileServer.file_cache: file_id -> [data, cached_at]
    req,            \* the request in flight and the position of its handler
    resolve_calls,  \* how many times bot.get_messages has been called
    edits           \* how many times the upstream message was replaced

serverVars == <<now, file_cache, req, resolve_calls, edits>>

VARIABLES
    range_header,   \* the Range header of the request, a str of code points
    file_size,      \* file_info['file_size'] of the range request, in bytes
    source_len,     \* how many bytes the Media Source holds for the message
    start,          \* locals of _handle_range_request_optimized
    end,
    current_pos,
    bytes_sent,
    response,       \* the web.StreamResponse: status, headers, body written
    produced,       \* the offset the byte producer has reached
    chunks,         \* lengths of the chunks the producer has yielded so far
    opened,         \* whether the byte producer was opened
    released,       \* whether the opened producer ran to its end or was closed
    failure,        \* the exception raised inside the handler, "none" if none
    stream_limit,   \* the limit= argument stream_media was called with, 0 before
    rpc             \* position of the streaming handler

rangeVars == <<range_header, file_size, source_len, start, end, current_pos,
               bytes_sent, response, produced, chunks, opened, released,
               failure, stream_limit, rpc>>

VARIABLES
    handler,            \* which handler sends the whole file: "stream" or "download"
    file_name,          \* file_info['file_name']
    file_type,          \* file_info['file_type']
    url_filename,       \* request.match_info['filename'], a str of code points
    grain,              \* how many bytes one element of the body stands for
    MAX_CHUNK_SIZE,     \* Config.MAX_CHUNK_SIZE, fixed for the life of the process
    stream_settings,    \* what get_streaming_optimization_settings returned
    current_chunk_size, \* locals of _adaptive_stream_file
    buffer_sent,
    chunk_sizes,        \* the values current_chunk_size has had, oldest first
    yields              \* how many times the streamer has run asyncio.sleep(0)

streamVars == <<handler, file_name, file_type, url_filename, grain, MAX_CHUNK_SIZE,
                stream_settings, current_chunk_size, buffer_sent, chunk_sizes,
                yields>>

VARIABLES
    calls           \* the get_file_info calls in flight side by side

vars == <<codecVars, serverVars, rangeVars, streamVars, calls>>

----------------------------------------------------------------------------
(* Optional values and exceptions *)

None == <<>>
Some(v) == <<v>>
Exc == << <<-1>> >>

----------------------------------------------------------------------------
(* Bounds of the codec scenario *)

MaxIdLen == 4
MaxTokLen == 5

\* '1' '_' '-' 'x' and U+00E9 (a non-ASCII letter)
PlainChars == {49, 95, 45, 120, 233}
\* 'A' 'Q' '!' '='
TokChars == {65, 81, 33, 61}

StringsOver(chars, n) == UNION {[1..m -> chars] : m \in 0..n}

\* "-1001234567890123_123456789012345": a reference longer than the key
LongRef ==
    <<45, 49, 48, 48, 49, 50, 51, 52, 53, 54, 55, 56, 57, 48, 49, 50, 51, 95, 49, 50, 51, 52, 53, 54, 55, 56, 57, 48, 49, 50, 51, 52, 53>>

CodecInputs ==
    StringsOver(PlainChars, MaxIdLen) \cup StringsOver(TokChars, MaxTokLen) \cup {LongRef}

----------------------------------------------------------------------------
(* utils/crypto_utils.py *)

KeyLen == 32

\* Config.SECRET_KEY values explored: the default and two others
Secrets == {"your-secret-key-here", "", "secret"}

\* CryptoUtils._get_key_bytes: hashlib.sha256(SECRET_KEY.encode()).digest(),
\* tabulated for the secrets explored
get_key_bytes(secret) ==
    IF secret = "your-secret-key-here" THEN
    <<85, 162, 170, 97, 156, 133, 43, 188, 42, 117, 107, 131, 105, 107, 96, 171,
      27, 145, 171, 113, 99, 243, 224, 216, 70, 61, 168, 21, 251, 147, 162, 104>>
    ELSE IF secret = "" THEN
    <<227, 176, 196, 66, 152, 252, 28, 20, 154, 251, 244, 200, 153, 111, 185, 36,
      39, 174, 65, 228, 100, 155, 147, 76, 164, 149, 153, 27, 120, 82, 184, 85>>
    ELSE
    <<43, 184, 13, 83, 123, 29, 163, 227, 139, 211, 3, 97, 170, 133, 86, 134,
      189, 224, 234, 205, 113, 98, 254, 246, 162, 95, 233, 123, 245, 39, 162, 91>>

RECURSIVE Xor(_, _)
Xor(a, b) ==
    IF a = 0 THEN b
    ELSE IF b = 0 THEN a
    ELSE ((a + b) % 2) + 2 * Xor(a \div 2, b \div 2)

\* xor_bytes[i] = id_bytes[i] ^ key[i % len(key)]   (0-based i)
XorBytes(bs, k) == [i \in 1..Len(bs) |-> Xor(bs[i], k[((i - 1) % Len(k)) + 1])]

\* str.encode(): UTF-8; lone surrogates cannot be encoded
CanEncode(s) == \A i \in 1..Len(s) : ~(s[i] >= 55296 /\ s[i] <= 57343)

Utf8Char(cp) ==
    IF cp < 128 THEN <<cp>>
    ELSE IF cp < 2048 THEN <<192 + (cp \div 64), 128 + (cp % 64)>>
    ELSE IF cp < 65536
         THEN <<224 + (cp \div 4096), 128 + ((cp \div 64) % 64), 128 + (cp % 64)>>
    ELSE <<240 + (cp \div 262144), 128 + ((cp \div 4096) % 64),
           128 + ((cp \div 64) % 64), 128 + (cp % 64)>>

RECURSIVE Utf8Encode(_)
Utf8Encode(s) == IF s = <<>> THEN <<>> ELSE Utf8Char(Head(s)) \o Utf8Encode(Tail(s))

IsCont(b) == b >= 128 /\ b <= 191

\* bytes.decode(): strict UTF-8; Some(str) or Exc (UnicodeDecodeError)
RECURSIVE Utf8Decode(_)
Utf8Decode(bs) ==
    IF bs = <<>> THEN Some(<<>>)
    ELSE LET b == bs[1]
             n == Len(bs)
             need == IF b < 128 THEN 1
                     ELSE IF b >= 194 /\ b <= 223 THEN 2
                     ELSE IF b >= 224 /\ b <= 239 THEN 3
                     ELSE IF b >= 240 /\ b <= 244 THEN 4
                     ELSE 0
             ok == /\ need > 0
                   /\ n >= need
                   /\ \A i \in 2..need : IsCont(bs[i])
                   /\ (b = 224 => bs[2] >= 160)
                   /\ (b = 237 => bs[2] <= 159)
                   /\ (b = 240 => bs[2] >= 144)
                   /\ (b = 244 => bs[2] <= 143)
             cp == IF need = 1 THEN b
                   ELSE IF need = 2 THEN ((b - 192) * 64) + (bs[2] - 128)
                   ELSE IF need = 3
                        THEN ((b - 224) * 4096) + ((bs[2] - 128) * 64) + (bs[3] - 128)
                   ELSE ((b - 240) * 262144) + ((bs[2] - 128) * 4096)
                        + ((bs[3] - 128) * 64) + (bs[4] - 128)
         IN  IF ~ok THEN Exc
             ELSE LET rest == Utf8Decode(SubSeq(bs, need + 1, n))
                  IN  IF rest = Exc THEN Exc ELSE Some(<<cp>> \o rest[1])

\* The URL-safe base64 alphabet: A-Z a-z 0-9 - _
B64Char(i) ==
    IF i < 26 THEN 65 + i
    ELSE IF i < 52 THEN 97 + (i - 26)
    ELSE IF i < 62 THEN 48 + (i - 52)
    ELSE IF i = 62 THEN 45
    ELSE 95

\* base64.urlsafe_b64encode: each group of 3 bytes becomes 4 characters; a last
\* group of 1 or 2 bytes is zero-filled and its unused characters are '='
UrlsafeB64Encode(bs) ==
    LET n == Len(bs)
        byte(i) == IF i <= n THEN bs[i] ELSE 0
        char(k) ==
            LET g == 3 * ((k - 1) \div 4)
                pos == (k - 1) % 4
            IN  IF pos = 0 THEN B64Char(byte(g + 1) \div 4)
                ELSE IF pos = 1
                     THEN B64Char(((byte(g + 1) % 4) * 16) + (byte(g + 2) \div 16))
                ELSE IF pos = 2
                     THEN IF g + 2 > n THEN 61
                          ELSE B64Char(((byte(g + 2) % 16) * 4) + (byte(g + 3) \div 64))
                ELSE IF g + 3 > n THEN 61 ELSE B64Char(byte(g + 3) % 64)
    IN  [k \in 1..(4 * ((n + 2) \div 3)) |-> char(k)]

\* str.rstrip('=')
RECURSIVE RStripPad(_)
RStripPad(s) ==
    IF Len(s) > 0 /\ s[Len(s)] = 61 THEN RStripPad(SubSeq(s, 1, Len(s) - 1)) ELSE s

\* The decoder's table after urlsafe translation: '-' and '+' are 62, '_' and '/'
\* are 63; 64 marks a character outside the alphabet.
B64Index(c) ==
    IF c >= 65 /\ c <= 90 THEN c - 65
    ELSE IF c >= 97 /\ c <= 122 THEN c - 71
    ELSE IF c >= 48 /\ c <= 57 THEN c + 4
    ELSE IF c \in {45, 43} THEN 62
    ELSE IF c \in {95, 47} THEN 63
    ELSE 64

\* A character that carries 6 bits of data
IsData(c) == c # 61 /\ B64Index(c) < 64

\* binascii.a2b_base64 in its default, non-strict mode.  Characters outside the
\* alphabet are discarded.  A '=' met when the current group holds 3 data
\* characters, or 2 data characters and an earlier '=' since the last data
\* character, completes the pad sequence and ends the parse: the rest of the
\* input is ignored.  Any other '=' is skipped.  Input that ends inside a group
\* raises binascii.Error ("Incorrect padding").
A2bBase64(s) ==
    LET quad(i) == Cardinality({j \in 1..(i - 1) : IsData(s[j])}) % 4
        ends(i) ==
            /\ s[i] = 61
            /\ \/ quad(i) = 3
               \/ /\ quad(i) = 2
                  /\ \E j \in 1..(i - 1) :
                        s[j] = 61 /\ \A m \in (j + 1)..(i - 1) : ~IsData(s[m])
        stops == {i \in 1..Len(s) : ends(i)}
        limit == IF stops = {} THEN Len(s)
                 ELSE (CHOOSE i \in stops : \A j \in stops : i <= j) - 1
        data == SelectSeq(SubSeq(s, 1, limit), IsData)
        n == Len(data)
        v(i) == B64Index(data[i])
        byte(j) ==
            LET g == 4 * ((j - 1) \div 3)
                pos == (j - 1) % 3
            IN  IF pos = 0 THEN (v(g + 1) * 4) + (v(g + 2) \div 16)
                ELSE IF pos = 1 THEN ((v(g + 2) % 16) * 16) + (v(g + 3) \div 4)
                ELSE ((v(g + 3) % 4) * 64) + v(g + 4)
        nbytes == (3 * (n \div 4)) + (IF n % 4 = 0 THEN 0 ELSE (n % 4) - 1)
    IN  IF stops = {} /\ n % 4 # 0 THEN Exc
        ELSE Some([j \in 1..nbytes |-> byte(j)])

\* base64.urlsafe_b64decode(str): the str must be ASCII (ValueError otherwise)
UrlsafeB64Decode(s) ==
    IF \E i \in 1..Len(s) : s[i] > 127 THEN Exc ELSE A2bBase64(s)

\* CryptoUtils.encrypt_id; an exception in the try block returns plain_id itself
encrypt_id(secret, plain_id) ==
    IF ~CanEncode(plain_id) THEN plain_id
    ELSE RStripPad(UrlsafeB64Encode(<<1>> \o XorBytes(Utf8Encode(plain_id), get_key_bytes(secret))))

\* A decoder that forgets to restore the padding encrypt_id stripped
PadTokenOmitted(t) == t

\* "Pad base64 if needed"
PadToken(t) ==
    LET padding == Len(t) % 4
    IN  IF padding # 0 THEN t \o [i \in 1..(4 - padding) |-> 61] ELSE t

\* The try block of decrypt_id: None, Some(str) or Exc
DecryptTry(secret, encrypted_id) ==
    LET decoded == UrlsafeB64Decode(PadToken(encrypted_id))
    IN  IF decoded = Exc THEN Exc
        ELSE IF Len(decoded[1]) < 2 \/ decoded[1][1] # 1 THEN None
        ELSE Utf8Decode(XorBytes(Tail(decoded[1]), get_key_bytes(secret)))

\* CryptoUtils.decrypt_id: "except Exception: return None"
decrypt_id(secret, encrypted_id) ==
    LET r == DecryptTry(secret, encrypted_id) IN IF r = Exc THEN None ELSE r

----------------------------------------------------------------------------
(* bot_main.py: a file reference is rendered f"{message.chat.id}_{message.id}" *)

IsDigit(c) == c >= 48 /\ c <= 57

\* str(int): "0", or an optional '-', a non-zero digit and more digits
IsIntRendering(s) ==
    \/ s = <<48>>
    \/ LET d == IF Len(s) > 0 /\ s[1] = 45 THEN Tail(s) ELSE s
       IN  /\ Len(d) > 0
           /\ d[1] # 48
           /\ \A i \in 1..Len(d) : IsDigit(d[i])

\* generate_file_id: "<chat id>_<message id>"
IsFileReference(s) ==
    \E i \in 1..Len(s) :
        /\ s[i] = 95
        /\ IsIntRendering(SubSeq(s, 1, i - 1))
        /\ IsIntRendering(SubSeq(s, i + 1, Len(s)))

\* The codec is not in use
CodecIdle ==
    /\ ctoken = <<>>
    /\ cfrom = "none"
    /\ cresult = None
    /\ cpc = "start"

\* No range request is being handled
RangeIdle ==
    /\ range_header = <<>>
    /\ file_size = 0
    /\ source_len = 0
    /\ start = 0
    /\ end = 0
    /\ current_pos = 0
    /\ bytes_sent = 0
    /\ response = [status |-> 0, headers |-> <<>>, prepared |-> FALSE,
                   body |-> <<>>, eof |-> FALSE]
    /\ produced = 0
    /\ chunks = <<>>
    /\ opened = FALSE
    /\ released = FALSE
    /\ failure = "none"
    /\ stream_limit = 0
    /\ rpc = "none"

\* No whole file is being sent
StreamIdle ==
    /\ handler = "none"
    /\ file_name = ""
    /\ file_type = ""
    /\ url_filename = <<>>
    /\ grain = 1
    /\ MAX_CHUNK_SIZE = 1048576
    /\ stream_settings = <<>>
    /\ current_chunk_size = 0
    /\ buffer_sent = 0
    /\ chunk_sizes = <<>>
    /\ yields = 0

\* No get_file_info calls run side by side
StampedeIdle == calls = <<>>

----------------------------------------------------------------------------
(* web_server.py: FileServer.get_file_info and the request handlers *)

\* The trust window of a cache entry, in seconds
CACHE_TTL == 600

\* Config.MAX_FILE_SIZE.  File sizes of this part of the model are counted in
\* GiB: the default limit is 4294967296 bytes.
MAX_FILE_SIZE == 4

\* Bounds: how far the clock runs (in steps of 300 s), how many upstream
\* resolve calls are followed, how often the upstream message is replaced
MaxTicks == 15
MaxCalls == 2
MaxEdits == 1

\* str.split(sep)
RECURSIVE Split(_, _)
Split(s, sep) ==
    IF \A i \in 1..Len(s) : s[i] # sep THEN <<s>>
    ELSE LET i == CHOOSE i \in 1..Len(s) : s[i] = sep /\ \A j \in 1..(i - 1) : s[j] # sep
         IN  <<SubSeq(s, 1, i - 1)>> \o Split(SubSeq(s, i + 1, Len(s)), sep)

IsSpace(c) == c = 32 \/ (c >= 9 /\ c <= 13)

RECURSIVE StripSpace(_)
StripSpace(s) ==
    IF Len(s) > 0 /\ IsSpace(s[1]) THEN StripSpace(Tail(s))
    ELSE IF Len(s) > 0 /\ IsSpace(s[Len(s)]) THEN StripSpace(SubSeq(s, 1, Len(s) - 1))
    ELSE s

RECURSIVE DigitsValue(_)
DigitsValue(d) ==
    IF d = <<>> THEN 0 ELSE (10 * DigitsValue(SubSeq(d, 1, Len(d) - 1))) + (d[Len(d)] - 48)

\* int(str) accepts surrounding whitespace, an optional sign and decimal
\* digits, with single underscores between digits; anything else over the
\* ASCII characters raises ValueError
IsPyInt(s) ==
    LET t == StripSpace(s)
        d == IF Len(t) > 0 /\ t[1] \in {43, 45} THEN Tail(t) ELSE t
    IN  /\ Len(d) > 0
        /\ \A i \in 1..Len(d) :
              \/ IsDigit(d[i])
              \/ d[i] = 95 /\ 1 < i /\ i < Len(d) /\ IsDigit(d[i - 1]) /\ IsDigit(d[i + 1])

\* int(str), for a str it accepts
PyInt(s) ==
    LET t == SelectSeq(StripSpace(s), LAMBDA c : c # 95)
    IN  IF t[1] = 45 THEN 0 - DigitsValue(Tail(t))
        ELSE IF t[1] = 43 THEN DigitsValue(Tail(t))
        ELSE DigitsValue(t)

\* The arguments of bot.get_messages: chat_id = int(file_id.split('_')[0]),
\* message_ids = int(file_id.split('_')[1]); Exc on ValueError or IndexError
ParseFileId(file_id) ==
    LET parts == Split(file_id, 95)
    IN  IF ~IsPyInt(parts[1]) THEN Exc
        ELSE IF Len(parts) < 2 THEN Exc
        ELSE IF ~IsPyInt(parts[2]) THEN Exc
        ELSE Some(<<PyInt(parts[1]), PyInt(parts[2])>>)

\* The Media Source.  Message 2 of chat 1 is a video "a b.mp4" of exactly
\* MAX_FILE_SIZE bytes, replaced upstream at each edit by a larger one named
\* "a.mp4"; message 3 of chat 1 is a text message, which carries no document,
\* video, audio or photo; nothing else exists.
GetMessages(ref, e) ==
    IF ref = <<1, 2>>
    THEN [media |-> "video", file_name |-> IF e = 0 THEN "a b.mp4" ELSE "a.mp4",
          mime_type |-> "video/mp4",
          file_size |-> MAX_FILE_SIZE + e, version |-> e]
    ELSE IF ref = <<1, 3>> THEN [media |-> "none"]
    ELSE None

HasFile(message) ==
    message # None /\ message.media \in {"document", "video", "audio", "photo"}

VideoExtensions == {".mp4", ".mkv", ".avi", ".mov", ".webm", ".flv", ".wmv", ".m4v"}
AudioExtensions == {".mp3", ".wav", ".flac", ".aac", ".ogg", ".m4a", ".wma"}

\* The extension a file name of the model ends with
Extension(name) ==
    IF name \in {"a.mp4", "a b.mp4"} THEN ".mp4"
    ELSE IF name = "a.mkv" THEN ".mkv"
    ELSE IF name = "a.mp3" THEN ".mp3"
    ELSE IF name = "b.pdf" THEN ".pdf"
    ELSE ""

\* MediaProcessor.is_streamable: by extension first, then by MIME type
is_streamable(name, mime_type) ==
    IF Extension(name) \in VideoExtensions \cup AudioExtensions THEN TRUE
    ELSE IF Extension(name) # "" THEN FALSE
    ELSE mime_type \in {"video/mp4", "audio/mpeg"}

\* MediaProcessor.extract_file_metadata, plus file_info['message'] = message
extract_file_metadata(message) ==
    [file_name |-> message.file_name,
     file_size |-> message.file_size,
     mime_type |-> message.mime_type,
     file_type |-> message.media,
     message |-> message.version]

\* A cache whose entries never expire
CacheHitNoExpiry(cache, file_id, t) == file_id \in DOMAIN cache

\* A cache that still serves an entry of exactly 600 s
CacheHitInclusive(cache, file_id, t) ==
    file_id \in DOMAIN cache /\ t - cache[file_id].cached_at <= CACHE_TTL

\* "if file_id in self.file_cache ... < 600": the entry that is served
CacheHit(cache, file_id, t) ==
    file_id \in DOMAIN cache /\ t - cache[file_id].cached_at < CACHE_TTL

\* A cache write that keeps the entry a key already has
CachePutIfAbsent(cache, file_id, file_info, t) ==
    [k \in DOMAIN cache \cup {file_id} |->
        IF k \in DOMAIN cache THEN cache[k] ELSE [data |-> file_info, cached_at |-> t]]

\* self.file_cache[file_id] = {'data': file_info, 'cached_at': time.time()}
CachePut(cache, file_id, file_info, t) ==
    [k \in DOMAIN cache \cup {file_id} |->
        IF k = file_id THEN [data |-> file_info, cached_at |-> t] ELSE cache[k]]

\* The code points of the strings the model builds URLs from
Codes(name) ==
    IF name = "a.mp4" THEN <<97, 46, 109, 112, 52>>
    ELSE IF name = "a b.mp4" THEN <<97, 32, 98, 46, 109, 112, 52>>
    ELSE IF name = "b.pdf" THEN <<98, 46, 112, 100, 102>>
    ELSE IF name = "a.mkv" THEN <<97, 46, 109, 107, 118>>
    ELSE IF name = "A.MKV" THEN <<65, 46, 77, 75, 86>>
    ELSE IF name = "a.avi" THEN <<97, 46, 97, 118, 105>>
    ELSE IF name = "a.mov" THEN <<97, 46, 109, 111, 118>>
    ELSE IF name = "a.webm" THEN <<97, 46, 119, 101, 98, 109>>
    ELSE IF name = "a.mp3" THEN <<97, 46, 109, 112, 51>>
    ELSE IF name = "a.wav" THEN <<97, 46, 119, 97, 118>>
    ELSE IF name = "a.mp4.txt" THEN <<97, 46, 109, 112, 52, 46, 116, 120, 116>>
    ELSE IF name = "mkv" THEN <<109, 107, 118>>
    ELSE IF name = ".mp4" THEN <<46, 109, 112, 52>>
    ELSE IF name = ".mkv" THEN <<46, 109, 107, 118>>
    ELSE IF name = ".avi" THEN <<46, 97, 118, 105>>
    ELSE IF name = ".mov" THEN <<46, 109, 111, 118>>
    ELSE IF name = ".webm" THEN <<46, 119, 101, 98, 109>>
    ELSE IF name = ".flv" THEN <<46, 102, 108, 118>>
    ELSE IF name = ".wmv" THEN <<46, 119, 109, 118>>
    ELSE IF name = ".m4v" THEN <<46, 109, 52, 118>>
    ELSE IF name = ".mp3" THEN <<46, 109, 112, 51>>
    ELSE IF name = ".wav" THEN <<46, 119, 97, 118>>
    ELSE IF name = ".flac" THEN <<46, 102, 108, 97, 99>>
    ELSE IF name = ".aac" THEN <<46, 97, 97, 99>>
    ELSE IF name = ".ogg" THEN <<46, 111, 103, 103>>
    ELSE IF name = ".m4a" THEN <<46, 109, 52, 97>>
    ELSE IF name = ".wma" THEN <<46, 119, 109, 97>>
    ELSE IF name = "/stream/" THEN <<47, 115, 116, 114, 101, 97, 109, 47>>
    ELSE IF name = "/download/" THEN <<47, 100, 111, 119, 110, 108, 111, 97, 100, 47>>
    ELSE IF name = "/play/" THEN <<47, 112, 108, 97, 121, 47>>
    ELSE <<>>

\* An upper-case hexadecimal digit
HexDigit(n) == IF n < 10 THEN 48 + n ELSE 55 + n

\* urllib.parse.quote(s, safe=''): letters, digits and "_.-~" are kept, every
\* other character becomes %XX for each byte of its UTF-8 encoding
quote(s) ==
    LET bytes == Utf8Encode(s)
        Kept(b) == \/ b \in 48..57 \/ b \in 65..90 \/ b \in 97..122
                   \/ b \in {95, 46, 45, 126}
        Quoted(b) == IF Kept(b) THEN <<b>> ELSE <<37, HexDigit(b \div 16), HexDigit(b % 16)>>
        Q[i \in 0..Len(bytes)] == IF i = 0 THEN <<>> ELSE Q[i - 1] \o Quoted(bytes[i])
    IN  Q[Len(bytes)]

\* f"/stream/{file_id}/{filename}" if filename else f"/stream/{file_id}"
UrlOf(prefix, file_id, filename) ==
    IF filename # "" THEN Codes(prefix) \o file_id \o <<47>> \o Codes(filename)
    ELSE Codes(prefix) \o file_id

\* f"/stream/{file_id}/{safe_filename}", safe_filename = quote(file_name, safe='')
RedirectUrl(prefix, file_id, stored_name) ==
    Codes(prefix) \o file_id \o <<47>> \o quote(Codes(stored_name))

\* A size check that refuses a file of exactly the limit
TooLargeInclusive(size) == size >= MAX_FILE_SIZE

\* "if file_info['file_size'] > Config.MAX_FILE_SIZE"
TooLarge(size) == size > MAX_FILE_SIZE

\* stream_file and download_file with the missing-filename redirect placed
\* before the size check
DecideFoundRedirectFirst(r, info) ==
    IF r.route = "direct"
    THEN [status |-> 302, pc |-> "done",
          location |-> UrlOf("/stream/", r.file_id, r.filename)]
    ELSE IF r.route = "play"
         THEN IF is_streamable(IF r.filename # "" THEN r.filename ELSE info.file_name,
                               info.mime_type)
              THEN [status |-> 200, pc |-> "done", location |-> <<>>]
              ELSE [status |-> 302, pc |-> "done",
                    location |-> UrlOf("/download/", r.file_id, r.filename)]
    ELSE IF r.filename = ""
         THEN [status |-> 302, pc |-> "done",
               location |-> RedirectUrl(IF r.route = "stream" THEN "/stream/"
                                        ELSE "/download/", r.file_id, info.file_name)]
    ELSE IF TooLarge(info.file_size) THEN [status |-> 400, pc |-> "done", location |-> <<>>]
    ELSE IF r.route = "download"
         THEN [status |-> 200, pc |-> "download_body", location |-> <<>>]
    ELSE IF r.range THEN [status |-> 0, pc |-> "range", location |-> <<>>]
    ELSE [status |-> 200, pc |-> "adaptive", location |-> <<>>]

\* The handler after get_file_info returned metadata, up to its next
\* suspension point: the status it answers with, the Location of a redirect,
\* and where it goes on
DecideFound(r, info) ==
    IF r.route = "direct"
    THEN [status |-> 302, pc |-> "done",
          location |-> UrlOf("/stream/", r.file_id, r.filename)]
    ELSE IF r.route = "play"
         THEN IF is_streamable(IF r.filename # "" THEN r.filename ELSE info.file_name,
                               info.mime_type)
              THEN [status |-> 200, pc |-> "done", location |-> <<>>]
              ELSE [status |-> 302, pc |-> "done",
                    location |-> UrlOf("/download/", r.file_id, r.filename)]
    ELSE IF TooLarge(info.file_size) THEN [status |-> 400, pc |-> "done", location |-> <<>>]
    ELSE IF r.filename = ""
         THEN [status |-> 302, pc |-> "done",
               location |-> RedirectUrl(IF r.route = "stream" THEN "/stream/"
                                        ELSE "/download/", r.file_id, info.file_name)]
    ELSE IF r.route = "download"
         THEN [status |-> 200, pc |-> "download_body", location |-> <<>>]
    ELSE IF r.range THEN [status |-> 0, pc |-> "range", location |-> <<>>]
    ELSE [status |-> 200, pc |-> "adaptive", location |-> <<>>]

\* A handler that, finding no file_info, asks get_file_info again
DecideRetry(r, file_info) ==
    IF file_info = None THEN [status |-> 0, pc |-> "received", location |-> <<>>]
    ELSE DecideFound(r, file_info[1])

\* A handler without its "if not file_info" check: subscripting None raises
\* TypeError, which "except Exception" turns into a 500
DecideUnchecked(r, file_info) ==
    IF file_info = None THEN [status |-> 500, pc |-> "done", location |-> <<>>]
    ELSE DecideFound(r, file_info[1])

\* The handler from the return of get_file_info on: "if not file_info: raise
\* web.HTTPNotFound"
Decide(r, file_info) ==
    IF file_info = None THEN [status |-> 404, pc |-> "done", location |-> <<>>]
    ELSE DecideFound(r, file_info[1])

\* get_file_info without its try/except: the error reaches the handler's own
\* "except Exception", which answers 500
ResolveErrorEscapes(r) == [status |-> 500, pc |-> "done", location |-> <<>>]

\* An error inside get_file_info (an identifier that does not parse, an upstream
\* exception): "except Exception as e: ... return None", then the handler
ResolveError(r) == Decide(r, None)

\* "1_2", the legacy raw identifier of the video
RawId == <<49, 95, 50>>

\* The identifiers clients present: the raw identifier of the video and its
\* encrypt_id token, "1_3" (a text message), "1_4" (no message), "12", "_2" and
\* "1_" (an empty part)
FileIds ==
    {RawId, encrypt_id(SECRET_KEY, RawId), <<49, 95, 51>>, <<49, 95, 52>>, <<49, 50>>,
     <<95, 50>>, <<49, 95>>}

Routes == {"stream", "download", "direct", "play"}
UrlFilenames == {"", "a.mp4", "b.pdf"}

IdleRequest ==
    [pc |-> "idle", route |-> "none", file_id |-> <<>>, filename |-> "", range |-> FALSE,
     upstream |-> "not_called", file_info |-> None, status |-> 0, location |-> <<>>,
     producer |-> FALSE]

ServerIdle ==
    /\ now = 0
    /\ file_cache = <<>>
    /\ req = IdleRequest
    /\ resolve_calls = 0
    /\ edits = 0

ServerInit ==
    /\ SECRET_KEY = "your-secret-key-here"
    /\ cinput = <<>>
    /\ CodecIdle
    /\ ServerIdle
    /\ RangeIdle
    /\ StreamIdle
    /\ StampedeIdle

\* A request arrives (create_app's routes)
Receive ==
    /\ req.pc = "idle"
    /\ \E route \in Routes, file_id \in FileIds, filename \in UrlFilenames,
          range \in BOOLEAN :
        /\ route = "direct" => filename # ""
        /\ range => route = "stream"
        /\ req' = [IdleRequest EXCEPT !.pc = "received", !.route = route,
                      !.file_id = file_id, !.filename = filename, !.range = range]
    /\ UNCHANGED <<now, file_cache, resolve_calls, edits>>
    /\ UNCHANGED <<codecVars, rangeVars, streamVars, calls>>

\* get_file_info up to "await self.bot.get_messages": a fresh entry is returned,
\* an identifier that does not parse raises inside the try and gives None
HandlerEnter ==
    /\ req.pc = "received"
    /\ IF CacheHit(file_cache, req.file_id, now)
       THEN LET info == Some(file_cache[req.file_id].data)
                d == Decide(req, info)
            IN  /\ req' = [req EXCEPT !.file_info = info, !.status = d.status,
                              !.location = d.location, !.pc = d.pc]
                /\ UNCHANGED resolve_calls
       ELSE IF ParseFileId(req.file_id) = Exc
       THEN LET d == ResolveError(req)
            IN  /\ req' = [req EXCEPT !.file_info = None, !.status = d.status,
                              !.location = d.location, !.pc = d.pc]
                /\ UNCHANGED resolve_calls
       ELSE /\ resolve_calls < MaxCalls
            /\ req' = [req EXCEPT !.pc = "resolving", !.upstream = "pending"]
            /\ resolve_calls' = resolve_calls + 1
    /\ UNCHANGED <<now, file_cache, edits>>
    /\ UNCHANGED <<codecVars, rangeVars, streamVars, calls>>

\* bot.get_messages returns: the rest of get_file_info, then the handler
UpstreamReturn ==
    /\ req.pc = "resolving"
    /\ LET message == GetMessages(ParseFileId(req.file_id)[1], edits)
       IN  IF ~HasFile(message)
           THEN LET d == Decide(req, None)
                IN  /\ req' = [req EXCEPT !.file_info = None, !.status = d.status,
                                  !.location = d.location, !.pc = d.pc,
                                  !.upstream = IF message = None THEN "none" ELSE "nomedia"]
                    /\ UNCHANGED file_cache
           ELSE LET info == Some(extract_file_metadata(message))
                    d == Decide(req, info)
                IN  /\ req' = [req EXCEPT !.file_info = info, !.status = d.status,
                                  !.location = d.location, !.pc = d.pc,
                                  !.upstream = "message"]
                    /\ file_cache' = CachePut(file_cache, req.file_id, info[1], now)
    /\ UNCHANGED <<now, resolve_calls, edits>>
    /\ UNCHANGED <<codecVars, rangeVars, streamVars, calls>>

\* bot.get_messages raises (flood wait, network): "except Exception: return None"
UpstreamRaises ==
    /\ req.pc = "resolving"
    /\ LET d == ResolveError(req)
       IN  req' = [req EXCEPT !.file_info = None, !.status = d.status,
                      !.location = d.location, !.pc = d.pc, !.upstream = "raised"]
    /\ UNCHANGED <<now, file_cache, resolve_calls, edits>>
    /\ UNCHANGED <<codecVars, rangeVars, streamVars, calls>>

\* The first iteration of "async for chunk in self.bot.stream_media(...)" of
\* _adaptive_stream_file and download_file opens the byte producer
OpenProducer ==
    /\ req.pc \in {"adaptive", "download_body"}
    /\ req' = [req EXCEPT !.producer = TRUE, !.pc = "streaming"]
    /\ UNCHANGED <<now, file_cache, resolve_calls, edits>>
    /\ UNCHANGED <<codecVars, rangeVars, streamVars, calls>>

\* The body transfer ends
BodyEnds ==
    /\ req.pc = "streaming"
    /\ req' = [req EXCEPT !.pc = "done"]
    /\ UNCHANGED <<now, file_cache, resolve_calls, edits>>
    /\ UNCHANGED <<codecVars, rangeVars, streamVars, calls>>

\* The response is complete (or handed to the range handler) and its
\* connection is free for the next request
Close ==
    /\ req.pc \in {"done", "range"}
    /\ req' = IdleRequest
    /\ UNCHANGED <<now, file_cache, resolve_calls, edits>>
    /\ UNCHANGED <<codecVars, rangeVars, streamVars, calls>>

\* time.time() advances
Tick ==
    /\ now < MaxTicks * 300
    /\ now' = now + 300
    /\ UNCHANGED <<file_cache, req, resolve_calls, edits>>
    /\ UNCHANGED <<codecVars, rangeVars, streamVars, calls>>

\* The upstream message is replaced
UpstreamEdit ==
    /\ edits < MaxEdits
    /\ edits' = edits + 1
    /\ UNCHANGED <<now, file_cache, req, resolve_calls>>
    /\ UNCHANGED <<codecVars, rangeVars, streamVars, calls>>

ServerNext ==
    \/ Receive
    \/ HandlerEnter
    \/ UpstreamReturn
    \/ UpstreamRaises
    \/ OpenProducer
    \/ BodyEnds
    \/ Close
    \/ Tick
    \/ UpstreamEdit

SpecServer == ServerInit /\ [][ServerNext]_vars

----------------------------------------------------------------------------
(* Claims about the metadata cache and the handlers *)

\* get_file_info has returned to the handler of the request
Returned == req.pc \notin {"idle", "received", "resolving"}

\* C4: cache freshness.  A get_file_info call for an identifier whose entry was
\* cached less than 10 minutes ago makes no upstream resolve call and returns
\* the metadata the first call stored and returned; a call made more than 60
\* minutes after the entry was created makes a second upstream resolve call.
C4_CacheFreshness ==
    [][/\ (req.pc = "received" /\ req'.pc # "received"
              /\ req.file_id \in DOMAIN file_cache) =>
            LET age == now - file_cache[req.file_id].cached_at
            IN  /\ age < 600 =>
                    /\ resolve_calls' = resolve_calls
                    /\ req'.file_info = Some(file_cache[req.file_id].data)
                /\ age > 3600 =>
                    /\ resolve_calls' = resolve_calls + 1
                    /\ req'.pc = "resolving"
       /\ (req.pc = "resolving" /\ req'.file_info # None) =>
            /\ req.file_id \in DOMAIN file_cache'
            /\ file_cache'[req.file_id] = [data |-> req'.file_info[1], cached_at |-> now]
      ]_vars

\* A second call, 5 minutes after the first one cached the entry, was served
\* from the cache although the upstream message has changed since: one
\* upstream call in all.
C4_Witness ==
    /\ Returned
    /\ req.upstream = "not_called"
    /\ req.file_info # None
    /\ req.file_id \in DOMAIN file_cache
    /\ now - file_cache[req.file_id].cached_at = 300
    /\ resolve_calls = 1
    /\ edits = 1
    /\ req.file_info[1].message = 0

\* C5: hard expiry.  A periodic sweep removes every entry older than 60
\* minutes: no entry of file_cache is ever older than 60 minutes plus one sweep
\* interval of 10 minutes.
C5_HardExpiry ==
    \A id \in DOMAIN file_cache : now - file_cache[id].cached_at <= 3600 + 600

\* C6: identifier resolution order.  get_file_info decodes the identifier and
\* resolves the decoded reference; so the encrypt_id token of a resolvable
\* reference yields the metadata its raw identifier yields (unless the upstream
\* call itself fails).
C6_TokenResolves ==
    (Returned /\ req.file_id = encrypt_id(SECRET_KEY, RawId) /\ req.upstream # "raised")
        => \E e \in 0..edits :
              req.file_info = Some(extract_file_metadata(GetMessages(<<1, 2>>, e)))

\* C7: NotFound.  When the Media Source returns no message, or a message that
\* carries no document, video, audio or photo, get_file_info returns None and
\* the handler (/stream, /download, /direct, /play) answers 404 and opens no
\* byte producer.
C7_NotFound ==
    /\ req.upstream \in {"none", "nomedia"} =>
        /\ req.file_info = None
        /\ req.status = 404
        /\ req.pc = "done"
    /\ req.status = 404 => ~req.producer /\ req.file_info = None

\* A /stream request for the text message was answered 404.
C7_Witness ==
    /\ req.route = "stream"
    /\ req.upstream = "nomedia"
    /\ req.status = 404
    /\ ~req.producer

\* C21: a request to /stream/{id}, /download/{id} or /play/{id} without a
\* filename segment, for a file that resolves (and is within the size limit), is
\* answered 302 with Location = the same path followed by "/" and the
\* URL-encoded stored file name, and the producer is never opened.
C21_MissingFilename ==
    (/\ Returned
     /\ req.route \in {"stream", "download", "play"}
     /\ req.filename = ""
     /\ req.file_info # None
     /\ req.file_info[1].file_size <= MAX_FILE_SIZE) =>
        /\ req.status = 302
        /\ req.location = Codes("/" \o req.route \o "/") \o req.file_id \o <<47>>
                            \o quote(Codes(req.file_info[1].file_name))
        /\ ~req.producer

\* C22: on /stream and /download, resolved metadata whose size exceeds
\* MAX_FILE_SIZE ends the request with status 400 and the producer is never
\* opened; a size of exactly MAX_FILE_SIZE is not refused.
C22_TooLarge ==
    (Returned /\ req.route \in {"stream", "download"} /\ req.file_info # None) =>
        LET size == req.file_info[1].file_size
        IN  /\ size > MAX_FILE_SIZE =>
                req.status = 400 /\ req.pc = "done" /\ ~req.producer
            /\ size <= MAX_FILE_SIZE => req.status # 400
            /\ (size = MAX_FILE_SIZE /\ req.filename # "" /\ ~req.range) =>
                req.status = 200

C22_Witness ==
    /\ req.route = "download"
    /\ req.filename = "a.mp4"
    /\ req.file_info # None
    /\ req.file_info[1].file_size = MAX_FILE_SIZE + 1
    /\ req.status = 400
    /\ ~req.producer

\* The identifiers of the model that are "<int>_<int>"; the others have no
\* underscore ("12"), a part that is not an integer (the token) or an empty
\* part ("_2", "1_")
WellFormedIds == {RawId, <<49, 95, 51>>, <<49, 95, 52>>}

\* C23: for an identifier that is not "<int>_<int>" and for any upstream
\* exception, get_file_info returns no value (it does not raise) and the
\* handler, whichever route it serves, answers 404 and opens no producer.
C23_NoErrorEscapes ==
    (Returned /\ (req.file_id \notin WellFormedIds \/ req.upstream = "raised")) =>
        /\ req.file_info = None
        /\ req.status = 404
        /\ req.pc = "done"
        /\ ~req.producer

C23_Witness ==
    /\ req.route = "play"
    /\ req.file_id = RawId
    /\ req.upstream = "raised"
    /\ req.status = 404

\* C31: cache refresh.  A get_file_info call for an identifier whose entry is
\* 10 minutes old or older calls the Media Source again; when that call
\* returns a file, the entry under the same key becomes the new metadata with
\* cached_at = now and no other key is touched.
C31_CacheRefresh ==
    [][/\ (req.pc = "received" /\ req'.pc # "received"
              /\ req.file_id \in DOMAIN file_cache
              /\ now - file_cache[req.file_id].cached_at >= 600) =>
            /\ resolve_calls' = resolve_calls + 1
            /\ req'.pc = "resolving"
            /\ req'.file_info = None
       /\ (req.pc = "resolving" /\ req'.upstream = "message") =>
            /\ DOMAIN file_cache' = DOMAIN file_cache \cup {req.file_id}
            /\ file_cache'[req.file_id] =
                  [data |-> extract_file_metadata(
                                GetMessages(ParseFileId(req.file_id)[1], edits)),
                   cached_at |-> now]
            /\ req'.file_info = Some(file_cache'[req.file_id].data)
            /\ \A id \in DOMAIN file_cache \ {req.file_id} :
                  file_cache'[id] = file_cache[id]
      ]_vars

\* A call 10 minutes after the entry was cached has resolved again and has
\* replaced the entry by the metadata of the edited message
C31_Witness ==
    /\ Returned
    /\ req.file_id = RawId
    /\ req.upstream = "message"
    /\ resolve_calls = 2
    /\ now = 600
    /\ edits = 1
    /\ DOMAIN file_cache = {RawId}
    /\ file_cache[RawId].cached_at = 600
    /\ file_cache[RawId].data.message = 1

\* C34: a failed resolve neither changes nor exposes cache state.  A
\* get_file_info call that ends with no value (unparsable identifier, no
\* message, no media, upstream exception) leaves file_cache exactly as it was,
\* a stale entry included; and a call that returns metadata without an
\* upstream call found an entry less than 10 minutes old.
C34_FailedResolveFrame ==
    [][/\ (req.pc \in {"received", "resolving"} /\ req'.pc \notin {"received", "resolving"}
              /\ req'.file_info = None) =>
            file_cache' = file_cache
       /\ (req.pc = "received" /\ req'.pc # "received" /\ req'.file_info # None) =>
            /\ req.file_id \in DOMAIN file_cache
            /\ now - file_cache[req.file_id].cached_at < 600
            /\ req'.file_info = Some(file_cache[req.file_id].data)
       /\ (req.pc = "resolving" /\ req'.upstream \in {"raised", "none", "nomedia"}) =>
            req'.file_info = None /\ file_cache' = file_cache
      ]_vars

\* The refresh of a 10-minute-old entry failed: the call returned no value and
\* the stale entry is still in the cache, as it was
C34_Witness ==
    /\ Returned
    /\ req.file_id = RawId
    /\ req.upstream = "raised"
    /\ req.file_info = None
    /\ req.status = 404
    /\ RawId \in DOMAIN file_cache
    /\ file_cache[RawId].cached_at = 0
    /\ now = 600

\* C36: check ordering in /stream and /download.  NotFound is decided before
\* TooLarge and TooLarge before the missing-filename redirect: without a
\* filename an unresolvable identifier gets 404 and an over-limit file 400,
\* never 302; and the Range header decides anything only for a request that
\* passed all three checks.
C36_CheckOrdering ==
    (Returned /\ req.route \in {"stream", "download"}) =>
        /\ req.file_info = None => req.status = 404
        /\ (req.file_info # None /\ req.file_info[1].file_size > MAX_FILE_SIZE) =>
                req.status = 400
        /\ req.status = 302 =>
            /\ req.file_info # None
            /\ req.file_info[1].file_size <= MAX_FILE_SIZE
            /\ req.filename = ""
        /\ (req.file_info # None /\ req.file_info[1].file_size <= MAX_FILE_SIZE
                /\ req.filename = "") => req.status = 302
        /\ req.pc = "range" =>
            /\ req.range
            /\ req.file_info # None
            /\ req.file_info[1].file_size <= MAX_FILE_SIZE
            /\ req.filename # ""

\* A /stream request without a filename, with a Range header, for a file over
\* the limit: 400
C36_Witness ==
    /\ Returned
    /\ req.route = "stream"
    /\ req.filename = ""
    /\ req.range
    /\ req.file_info # None
    /\ req.file_info[1].file_size = MAX_FILE_SIZE + 1
    /\ req.status = 400

----------------------------------------------------------------------------
(* The codec scenario: a caller encodes a string, or a client submits any   *)
(* string (possibly a token it has altered), and the server decodes it.     *)

\* What a client can do to a token it was given
Tamperings(t) ==
    {SubSeq(t, 1, i) \o <<33>> \o SubSeq(t, i + 1, Len(t)) : i \in {0, Len(t)}}
        \cup {SubSeq(t, 1, i) \o <<33, 33, 33, 33>> \o SubSeq(t, i + 1, Len(t)) :
                i \in {0, Len(t)}}
        \cup {t \o <<61>>}
        \cup {SubSeq(t, 1, Len(t) - 1) \o <<c>> : c \in {B64Char(j) : j \in 0..3}}

CodecInit ==
    /\ SECRET_KEY \in Secrets
    /\ cinput \in CodecInputs
    /\ CodecIdle
    /\ ServerIdle
    /\ RangeIdle
    /\ StreamIdle
    /\ StampedeIdle

EncryptId ==
    /\ cpc = "start"
    /\ ctoken' = encrypt_id(SECRET_KEY, cinput)
    /\ cpc' = "token"
    /\ cfrom' = "encrypted"
    /\ UNCHANGED <<SECRET_KEY, cinput, cresult>>
    /\ UNCHANGED <<serverVars, rangeVars, streamVars, calls>>

SubmitRaw ==
    /\ cpc = "start"
    /\ ctoken' = cinput
    /\ cpc' = "token"
    /\ cfrom' = "raw"
    /\ UNCHANGED <<SECRET_KEY, cinput, cresult>>
    /\ UNCHANGED <<serverVars, rangeVars, streamVars, calls>>

Tamper ==
    /\ cpc = "token"
    /\ cfrom = "encrypted"
    /\ Len(ctoken) > 0
    /\ ctoken' \in Tamperings(ctoken) \ {ctoken}
    /\ cfrom' = "tampered"
    /\ UNCHANGED <<SECRET_KEY, cinput, cresult, cpc>>
    /\ UNCHANGED <<serverVars, rangeVars, streamVars, calls>>

DecryptId ==
    /\ cpc = "token"
    /\ cresult' = decrypt_id(SECRET_KEY, ctoken)
    /\ cpc' = "decrypted"
    /\ UNCHANGED <<SECRET_KEY, cinput, ctoken, cfrom>>
    /\ UNCHANGED <<serverVars, rangeVars, streamVars, calls>>

CodecNext == EncryptId \/ SubmitRaw \/ Tamper \/ DecryptId

SpecCodec == CodecInit /\ [][CodecNext]_vars

----------------------------------------------------------------------------
(* Claims about the codec *)

\* C1: round trip.  For every valid file reference r, rendered
\* "containerId_itemId", decrypt_id(encrypt_id(r)) returns exactly r, under
\* every server secret.
C1_RoundTrip ==
    (cpc = "decrypted" /\ cfrom = "encrypted" /\ IsFileReference(cinput))
        => cresult = Some(cinput)

\* A reference longer than the key has made the round trip.
C1_Witness ==
    /\ cpc = "decrypted"
    /\ cfrom = "encrypted"
    /\ IsFileReference(cinput)
    /\ Len(cinput) > KeyLen
    /\ cresult = Some(cinput)

\* A character that is neither in the base64 alphabet nor the pad character
IsForeignChar(c) == c # 61 /\ B64Index(c) = 64

\* C2: garbage-in safety.  decrypt_id never raises; for the empty string, for
\* a string containing a non-base64 character, and for base64 text that decodes
\* to fewer than the 2 bytes a token needs, it returns None.
C2_GarbageIn ==
    cpc = "decrypted" =>
        /\ cresult # Exc
        /\ (ctoken = <<>> => cresult = None)
        /\ ((\E i \in 1..Len(ctoken) : IsForeignChar(ctoken[i])) => cresult = None)
        /\ LET d == UrlsafeB64Decode(PadToken(ctoken))
           IN  (d # Exc /\ Len(d[1]) < 2) => cresult = None

\* t is encrypt_id(r) for a valid file reference r.  (If it is, decrypt_id
\* returns that r, by C1; so it is enough to look at what decrypt_id returns.)
IsProductOfEncode(t) ==
    LET d == decrypt_id(SECRET_KEY, t)
    IN  d # None /\ IsFileReference(d[1]) /\ encrypt_id(SECRET_KEY, d[1]) = t

\* C3: every token that is not encrypt_id(r) for a valid file reference r,
\* including one with the right version byte whose payload is not of the form
\* "int_int", is decoded to None.
C3_OnlyProductsDecode ==
    (cpc = "decrypted" /\ ~IsProductOfEncode(ctoken)) => cresult = None

----------------------------------------------------------------------------
(* web_server.py: FileServer._handle_range_request_optimized, entered by    *)
(* stream_file with a non-empty Range header for the video "a.mp4".  The    *)
(* byte at offset i of the media is written i, so that a body shows which   *)
(* bytes it is made of and in what order.                                   *)

\* Bounds of the range scenario
MaxSize == 6
MaxChunk == 4

Min(a, b) == IF a < b THEN a ELSE b
Max(a, b) == IF a > b THEN a ELSE b

\* "bytes="
BytesEq == <<98, 121, 116, 101, 115, 61>>

\* str(n) for n >= 0, as code points
RECURSIVE Digits(_)
Digits(n) == IF n < 10 THEN <<48 + n>> ELSE Digits(n \div 10) \o <<48 + (n % 10)>>

\* The bounds a client writes: nothing, or a number up to past the file's end
RangeFields == {<<>>} \cup {Digits(v) : v \in 0..(MaxSize + 1)} \cup {Digits(10)}

\* Range headers: "bytes=<a>-<b>", and headers of other shapes: "bytes=1",
\* "bytes=0-1,2-3", "bytes=x-1", "bytes=--2", "1-2", "bytes= 1-+2", "bytes=0-1-"
RangeHeaders ==
    {BytesEq \o a \o <<45>> \o b : a \in RangeFields, b \in RangeFields}
        \cup {BytesEq \o <<49>>,
              BytesEq \o <<48, 45, 49, 44, 50, 45, 51>>,
              BytesEq \o <<120, 45, 49>>,
              BytesEq \o <<45, 45, 50>>,
              <<49, 45, 50>>,
              BytesEq \o <<32, 49, 45, 43, 50>>,
              BytesEq \o <<48, 45, 49, 45>>}

\* str.replace(old, ''), for a non-empty old
RECURSIVE Remove(_, _)
Remove(s, old) ==
    IF Len(s) < Len(old) THEN s
    ELSE IF SubSeq(s, 1, Len(old)) = old THEN Remove(SubSeq(s, Len(old) + 1, Len(s)), old)
    ELSE <<s[1]>> \o Remove(Tail(s), old)

\* A parse that reads "bytes=-N" as the last N bytes of the file
ParseRangeSuffix(header, size) ==
    LET range_match == Split(Remove(header, BytesEq), 45)
    IN  IF range_match[1] # <<>> /\ ~IsPyInt(range_match[1]) THEN Exc
        ELSE IF Len(range_match) < 2 THEN Exc
        ELSE IF range_match[2] # <<>> /\ ~IsPyInt(range_match[2]) THEN Exc
        ELSE IF range_match[1] = <<>> /\ range_match[2] # <<>>
        THEN Some(<<size - PyInt(range_match[2]), size - 1>>)
        ELSE Some(<<IF range_match[1] # <<>> THEN PyInt(range_match[1]) ELSE 0,
                    IF range_match[2] # <<>> THEN PyInt(range_match[2]) ELSE size - 1>>)

\* "Parse range header": Some(<<start, end>>), or Exc on the ValueError of
\* int() or the IndexError of range_match[1]
ParseRange(header, size) ==
    LET range_match == Split(Remove(header, BytesEq), 45)
    IN  IF range_match[1] # <<>> /\ ~IsPyInt(range_match[1]) THEN Exc
        ELSE IF Len(range_match) < 2 THEN Exc
        ELSE IF range_match[2] # <<>> /\ ~IsPyInt(range_match[2]) THEN Exc
        ELSE Some(<<IF range_match[1] # <<>> THEN PyInt(range_match[1]) ELSE 0,
                    IF range_match[2] # <<>> THEN PyInt(range_match[2]) ELSE size - 1>>)

\* A validation that lets the first offset past the file through
RangeInvalidOffByOne(s, e, size) == s > size \/ e > size \/ s > e

\* "Validate range"
RangeInvalid(s, e, size) == s >= size \/ e >= size \/ s > e

\* f'bytes */{file_size}'
UnsatisfiedRange(size) == "bytes */" \o ToString(size)

\* f'bytes {start}-{end}/{file_size}'
ContentRange(s, e, size) ==
    "bytes " \o ToString(s) \o "-" \o ToString(e) \o "/" \o ToString(size)

\* A length that leaves the last byte out
ContentLengthShort(s, e) == ToString(e - s)

\* str(end - start + 1)
ContentLength(s, e) == ToString((e - s) + 1)

\* MediaProcessor.get_optimized_streaming_headers for the video "a.mp4",
\* without X-Playback-Session-Id (a hash of the name, salted per process) and
\* the Content-Duration hint
OptimizedHeaders(range_request) ==
    [h \in {"Accept-Ranges", "Cache-Control", "Access-Control-Allow-Origin",
            "Access-Control-Allow-Methods", "Access-Control-Allow-Headers",
            "X-Content-Type-Options", "Connection", "Content-Type",
            "Transfer-Encoding"} |->
        CASE h = "Accept-Ranges" -> "bytes"
          [] h = "Cache-Control" ->
                IF range_request THEN "no-cache" ELSE "public, max-age=3600"
          [] h = "Access-Control-Allow-Origin" -> "*"
          [] h = "Access-Control-Allow-Methods" -> "GET, HEAD, OPTIONS"
          [] h = "Access-Control-Allow-Headers" -> "Range, Content-Type, Accept-Ranges"
          [] h = "X-Content-Type-Options" -> "nosniff"
          [] h = "Connection" -> "keep-alive"
          [] h = "Content-Type" -> "video/mp4"
          [] h = "Transfer-Encoding" -> "chunked"]

\* The chunk of n bytes the producer yields at offset pos
Chunk(pos, n) == [k \in 1..n |-> (pos + k) - 1]

\* A trim that stops one byte short of the range's end
ChunkEndTrimShort(len, e, pos) == Min(len, e - pos)

\* A chunk that is not trimmed at the end of the range
ChunkEndTrimNone(len, e, pos) == len

\* chunk_end_trim = min(len(chunk), end - current_pos + 1)
ChunkEndTrim(len, e, pos) == Min(len, (e - pos) + 1)

\* A loop that is left only by "if current_pos > end: break"
RangeSatisfiedNever(sent, total_to_send) == FALSE

\* "if bytes_sent >= total_to_send: break"
RangeSatisfied(sent, total_to_send) == sent >= total_to_send

\* chunk[chunk_start:chunk_end_trim]
Slice(chunk, from, to) == SubSeq(chunk, from + 1, to)

\* str.lower, on the code points of an ASCII string
lower(s) == [i \in 1..Len(s) |-> IF s[i] \in 65..90 THEN s[i] + 32 ELSE s[i]]

\* str.endswith
endswith(s, suffix) ==
    /\ Len(suffix) <= Len(s)
    /\ SubSeq(s, (Len(s) - Len(suffix)) + 1, Len(s)) = suffix

\* "any(filename_lower.endswith(ext) for ext in [...])"
EndsWithAny(filename, extensions) ==
    \E ext \in extensions : endswith(lower(Codes(filename)), Codes(ext))

\* The settings by file type, before the adjustment for the file's size
SettingsByType(filename) ==
    LET is_video == EndsWithAny(filename, VideoExtensions)
        is_audio == EndsWithAny(filename, AudioExtensions)
    IN  IF is_video
        THEN IF EndsWithAny(filename, {".mkv", ".avi", ".mov"})
             THEN [initial_chunk_size |-> 16384, max_chunk_size |-> 1048576,
                   buffer_multiplier |-> 8, buffer_target |-> 6 * 1024 * 1024]
             ELSE [initial_chunk_size |-> 32768, max_chunk_size |-> 1048576,
                   buffer_multiplier |-> 8, buffer_target |-> 4 * 1024 * 1024]
        ELSE IF is_audio
        THEN [initial_chunk_size |-> 16384, max_chunk_size |-> 1048576,
              buffer_multiplier |-> 6, buffer_target |-> 1 * 1024 * 1024]
        ELSE [initial_chunk_size |-> 65536, max_chunk_size |-> 1048576,
              buffer_multiplier |-> 4, buffer_target |-> 2 * 1024 * 1024]

\* An adjustment that raises the buffer target of small files to 512 KiB
AdjustForSizeRaising(settings, size) ==
    IF size < 10 * 1024 * 1024
    THEN [settings EXCEPT !.buffer_target = Max(@, 512 * 1024),
                          !.initial_chunk_size = Min(@, 8192)]
    ELSE IF size > 500 * 1024 * 1024
    THEN [settings EXCEPT !.buffer_target = Max(@, 8 * 1024 * 1024)]
    ELSE settings

\* "Adjust for file size - smaller files need less buffering"
AdjustForSize(settings, size) ==
    IF size < 10 * 1024 * 1024
    THEN [settings EXCEPT !.buffer_target = Min(@, 512 * 1024),
                          !.initial_chunk_size = Min(@, 8192)]
    ELSE IF size > 500 * 1024 * 1024
    THEN [settings EXCEPT !.buffer_target = Max(@, 8 * 1024 * 1024)]
    ELSE settings

\* MediaProcessor.get_streaming_optimization_settings
get_streaming_optimization_settings(filename, size) ==
    AdjustForSize(SettingsByType(filename), size)

\* Config.INITIAL_CHUNK_SIZE and Config.CHUNK_SIZE, at their defaults
INITIAL_CHUNK_SIZE == 65536
CHUNK_SIZE == 1048576

\* "range_chunk_size = min(stream_settings['initial_chunk_size'],
\* Config.INITIAL_CHUNK_SIZE)"
RangeChunkSize(settings) == Min(settings.initial_chunk_size, INITIAL_CHUNK_SIZE)

\* stream_file hands the request for the video "a.mp4" to the range handler
\* with the settings it has computed: the response carries the headers
\* stream_file has set, and nothing has been sent
RangeInit ==
    /\ SECRET_KEY = "your-secret-key-here"
    /\ cinput = <<>>
    /\ CodecIdle
    /\ ServerIdle
    /\ StampedeIdle
    /\ handler = "stream"
    /\ file_name = "a.mp4"
    /\ file_type = "video"
    /\ url_filename = <<97, 46, 109, 112, 52>>
    /\ grain = 1
    /\ MAX_CHUNK_SIZE = 1048576
    /\ current_chunk_size = 0
    /\ buffer_sent = 0
    /\ chunk_sizes = <<>>
    /\ yields = 0
    /\ range_header \in RangeHeaders
    /\ file_size \in 0..MaxSize
    /\ source_len \in 0..MaxSize
    /\ stream_settings = get_streaming_optimization_settings(file_name, file_size)
    /\ start = 0
    /\ end = 0
    /\ current_pos = 0
    /\ bytes_sent = 0
    /\ response = [status |-> 200, headers |-> OptimizedHeaders(FALSE),
                   prepared |-> FALSE, body |-> <<>>, eof |-> FALSE]
    /\ produced = 0
    /\ chunks = <<>>
    /\ opened = FALSE
    /\ released = FALSE
    /\ failure = "none"
    /\ stream_limit = 0
    /\ rpc = "entry"

\* Lines 935-967: parse and validate the header, then 416 and return, or 206
\* and go on to stream with the limit stream_media is called with; an exception of the parse ends in "except Exception:
\* raise web.HTTPInternalServerError"
RangeParse ==
    /\ rpc = "entry"
    /\ LET p == ParseRange(range_header, file_size)
       IN  IF p = Exc
           THEN /\ rpc' = "raised"
                /\ failure' = "parse"
                /\ UNCHANGED <<start, end, response, stream_limit>>
           ELSE /\ start' = p[1][1]
                /\ UNCHANGED failure
                /\ end' = p[1][2]
                /\ IF RangeInvalid(p[1][1], p[1][2], file_size)
                   THEN /\ response' =
                            [response EXCEPT
                                !.status = 416,
                                !.headers = ("Content-Range" :> UnsatisfiedRange(file_size)) @@ @,
                                !.prepared = TRUE]
                        /\ rpc' = "returned"
                        /\ UNCHANGED stream_limit
                   ELSE /\ stream_limit' = RangeChunkSize(stream_settings)
                        /\ response' =
                            [response EXCEPT
                                !.status = 206,
                                !.headers =
                                    ("Content-Range" :> ContentRange(p[1][1], p[1][2], file_size))
                                    @@ ("Content-Length" :> ContentLength(p[1][1], p[1][2]))
                                    @@ @ @@ OptimizedHeaders(TRUE),
                                !.prepared = TRUE]
                        /\ rpc' = "streaming"
    /\ UNCHANGED <<range_header, file_size, source_len, current_pos, bytes_sent,
                   produced, chunks, opened, released>>
    /\ UNCHANGED <<codecVars, serverVars, streamVars, calls>>

\* The body of "async for chunk in self.bot.stream_media(...)" for a chunk of
\* n bytes; a break runs on to response.write_eof() and the return
RangeLoopBody(n) ==
    LET chunk == Chunk(produced, n)
        chunk_end == current_pos + n
        chunk_start == Max(0, start - current_pos)
        chunk_end_trim == ChunkEndTrim(n, end, current_pos)
        chunk_data == Slice(chunk, chunk_start, chunk_end_trim)
    IN  /\ produced' = produced + n
        /\ chunks' = Append(chunks, n)
        /\ opened' = TRUE
        /\ IF chunk_end <= start
           THEN /\ current_pos' = chunk_end
                /\ UNCHANGED <<bytes_sent, response, rpc>>
           ELSE IF current_pos > end
           THEN /\ response' = [response EXCEPT !.eof = TRUE]
                /\ rpc' = "returned"
                /\ UNCHANGED <<current_pos, bytes_sent>>
           ELSE IF chunk_start < chunk_end_trim
           THEN /\ bytes_sent' = bytes_sent + Len(chunk_data)
                /\ IF RangeSatisfied(bytes_sent + Len(chunk_data), (end - start) + 1)
                   THEN /\ response' = [response EXCEPT !.body = @ \o chunk_data,
                                                        !.eof = TRUE]
                        /\ rpc' = "returned"
                        /\ UNCHANGED current_pos
                   ELSE /\ response' = [response EXCEPT !.body = @ \o chunk_data]
                        /\ current_pos' = current_pos + n
                        /\ UNCHANGED rpc
           ELSE /\ current_pos' = current_pos + n
                /\ UNCHANGED <<bytes_sent, response, rpc>>

\* One turn of the loop: the producer yields the next n >= 1 bytes
RangeChunk ==
    /\ rpc = "streaming"
    /\ \E n \in 1..Min(MaxChunk, source_len - produced) : RangeLoopBody(n)
    /\ UNCHANGED stream_limit
    /\ UNCHANGED <<range_header, file_size, source_len, start, end, released, failure>>
    /\ UNCHANGED <<codecVars, serverVars, streamVars, calls>>

\* How many empty chunks the producer is followed through
MaxEmpty == 1

\* One turn of the loop on an empty chunk (b'')
RangeEmptyChunk ==
    /\ rpc = "streaming"
    /\ Cardinality({i \in 1..Len(chunks) : chunks[i] = 0}) < MaxEmpty
    /\ RangeLoopBody(0)
    /\ UNCHANGED stream_limit
    /\ UNCHANGED <<range_header, file_size, source_len, start, end, released, failure>>
    /\ UNCHANGED <<codecVars, serverVars, streamVars, calls>>

\* The producer has no more bytes: the loop ends, then response.write_eof()
RangeExhausted ==
    /\ rpc = "streaming"
    /\ produced = source_len
    /\ opened' = TRUE
    /\ released' = TRUE
    /\ response' = [response EXCEPT !.eof = TRUE]
    /\ rpc' = "returned"
    /\ UNCHANGED stream_limit
    /\ UNCHANGED <<range_header, file_size, source_len, start, end, current_pos,
                   bytes_sent, produced, chunks, failure>>
    /\ UNCHANGED <<codecVars, serverVars, streamVars, calls>>

\* stream_media raises instead of yielding: "except Exception: raise
\* web.HTTPInternalServerError"
RangeSourceRaises ==
    /\ rpc = "streaming"
    /\ opened' = TRUE
    /\ released' = TRUE
    /\ failure' = "source"
    /\ rpc' = "raised"
    /\ UNCHANGED stream_limit
    /\ UNCHANGED <<range_header, file_size, source_len, start, end, current_pos,
                   bytes_sent, response, produced, chunks>>
    /\ UNCHANGED <<codecVars, serverVars, streamVars, calls>>

\* What response.write raises when the client is gone: a failed write, a
\* reset connection, "Cannot write to closing transport"
WriteFailures == {"write_failed", "connection_reset", "closing_transport"}

\* response.write raises on a chunk that has bytes of the range (the client
\* is gone): "except Exception: raise web.HTTPInternalServerError"
RangeWriteRaises ==
    /\ rpc = "streaming"
    /\ \E n \in 1..Min(MaxChunk, source_len - produced) :
        /\ current_pos + n > start
        /\ current_pos <= end
        /\ Max(0, start - current_pos) < ChunkEndTrim(n, end, current_pos)
        /\ produced' = produced + n
        /\ chunks' = Append(chunks, n)
    /\ opened' = TRUE
    /\ failure' \in WriteFailures
    /\ rpc' = "raised"
    /\ UNCHANGED stream_limit
    /\ UNCHANGED <<range_header, file_size, source_len, start, end, current_pos,
                   bytes_sent, response, released>>
    /\ UNCHANGED <<codecVars, serverVars, streamVars, calls>>

\* The handler has left its loop with the producer suspended; nothing in the
\* handler closes it, and the interpreter finalizes the abandoned generator
\* whenever it collects it
ProducerFinalized ==
    /\ rpc \in {"returned", "raised"}
    /\ opened
    /\ ~released
    /\ released' = TRUE
    /\ UNCHANGED stream_limit
    /\ UNCHANGED <<range_header, file_size, source_len, start, end, current_pos,
                   bytes_sent, response, produced, chunks, opened, failure, rpc>>
    /\ UNCHANGED <<codecVars, serverVars, streamVars, calls>>

RangeNext ==
    \/ RangeParse
    \/ RangeChunk
    \/ RangeExhausted
    \/ RangeSourceRaises
    \/ RangeWriteRaises
    \/ ProducerFinalized

SpecRange == RangeInit /\ [][RangeNext]_vars

----------------------------------------------------------------------------
(* Claims about range requests *)

\* The range handler has parsed a range out of the header
RangeParsed == rpc \in {"returned", "streaming", "raised"}
                  /\ ParseRange(range_header, file_size) # Exc

\* C8: range validation.  For every parsed range (start, end) and file size:
\* if start >= size or end >= size or start > end, the response has status
\* 416 and Content-Range "bytes */<size>", its body is empty and the byte
\* producer is never opened.
C8_RangeValidation ==
    RangeParsed =>
        LET r == ParseRange(range_header, file_size)[1]
        IN  (r[1] >= file_size \/ r[2] >= file_size \/ r[1] > r[2]) =>
                /\ rpc = "returned"
                /\ response.status = 416
                /\ response.prepared
                /\ "Content-Range" \in DOMAIN response.headers
                /\ response.headers["Content-Range"] = "bytes */" \o ToString(file_size)
                /\ response.body = <<>>
                /\ ~opened

\* "bytes=3-1" for a file of 4 bytes was answered 416, "bytes */4"
C8_Witness ==
    /\ rpc = "returned"
    /\ range_header = BytesEq \o <<51, 45, 49>>
    /\ file_size = 4
    /\ response.status = 416
    /\ response.headers["Content-Range"] = "bytes */4"
    /\ response.body = <<>>
    /\ ~opened

\* C9: for every range with 0 <= start <= end < size, the response has status
\* 206, Content-Range "bytes <start>-<end>/<size>" and Content-Length
\* end - start + 1.
C9_PartialContent ==
    RangeParsed =>
        LET r == ParseRange(range_header, file_size)[1]
        IN  (0 <= r[1] /\ r[1] <= r[2] /\ r[2] < file_size) =>
                /\ response.status = 206
                /\ response.prepared
                /\ "Content-Range" \in DOMAIN response.headers
                /\ response.headers["Content-Range"] =
                      "bytes " \o ToString(r[1]) \o "-" \o ToString(r[2])
                               \o "/" \o ToString(file_size)
                /\ "Content-Length" \in DOMAIN response.headers
                /\ response.headers["Content-Length"] = ToString((r[2] - r[1]) + 1)

\* "bytes=1-2" for a file of 4 bytes was answered 206, "bytes 1-2/4", length 2
C9_Witness ==
    /\ rpc = "streaming"
    /\ range_header = BytesEq \o <<49, 45, 50>>
    /\ file_size = 4
    /\ response.status = 206
    /\ response.headers["Content-Range"] = "bytes 1-2/4"
    /\ response.headers["Content-Length"] = "2"

\* file[start..end]
FileRange(s, e) == [k \in 1..((e - s) + 1) |-> (s + k) - 1]

\* C10: range body exactness.  For every valid range and every way the Media
\* Source splits the file into chunks from offset 0, the bytes written are at
\* every moment a prefix of file[start..end], and when the handler returns
\* they are exactly file[start..end], end - start + 1 bytes.
C10_RangeBodyExact ==
    (rpc \in {"returned", "streaming", "raised"} /\ response.status = 206
            /\ source_len = file_size) =>
        /\ Len(response.body) <= (end - start) + 1
        /\ response.body = SubSeq(FileRange(start, end), 1, Len(response.body))
        /\ bytes_sent = Len(response.body)
        /\ rpc = "returned" =>
            /\ response.body = FileRange(start, end)
            /\ Len(response.body) = (end - start) + 1
            /\ response.eof

\* "bytes=1-2" of a 4-byte file was served from two chunks of 2 bytes, the
\* first straddling start and the second straddling end
C10_Witness ==
    /\ rpc = "returned"
    /\ response.status = 206
    /\ source_len = 4
    /\ file_size = 4
    /\ start = 1
    /\ end = 2
    /\ chunks = <<2, 2>>
    /\ response.body = <<1, 2>>

\* C11: a malformed Range header (non-numeric bounds, a multi-range list, a
\* value with no '-') is answered 416, not 500, and nothing is streamed.
C11_MalformedRange ==
    (rpc \in {"returned", "streaming", "raised"}
            /\ ParseRange(range_header, file_size) = Exc) =>
        /\ rpc = "returned"
        /\ response.status = 416
        /\ response.body = <<>>
        /\ ~opened

\* C17: range client disconnect.  A write that fails during a 206 transfer
\* (failed write, reset connection, closing transport) is treated as normal
\* completion: the handler returns and raises nothing.
C17_RangeDisconnect ==
    (response.status = 206 /\ failure \in WriteFailures) => rpc = "returned"

\* The offset in the file at which the i-th chunk read begins
ChunkOffset(i) ==
    LET S[k \in 0..(i - 1)] == IF k = 0 THEN 0 ELSE S[k - 1] + chunks[k]
    IN  S[i - 1]

\* C26: range early stop.  Once the chunk that holds byte `end` has been read,
\* the range handler asks the Media Source for no further chunk: every chunk
\* read begins at or before `end`, and when the producer has passed `end` the
\* handler has left its loop.
C26_RangeEarlyStop ==
    (RangeParsed /\ response.status = 206) =>
        /\ \A i \in 1..Len(chunks) : ChunkOffset(i) <= end
        /\ produced > end => rpc \in {"returned", "raised"}
        /\ (produced > end /\ rpc = "returned") => Len(response.body) = (end - start) + 1

C26_Witness ==
    /\ response.status = 206
    /\ rpc = "returned"
    /\ start = 1
    /\ end = 2
    /\ chunks = <<1, 2>>
    /\ produced = 3
    /\ source_len = 5
    /\ file_size = 5
    /\ response.eof

\* C27: range parsing.  In "bytes=<start>-<end>" an empty start is 0 and an
\* empty end is file_size - 1: "bytes=N-" selects [N, file_size - 1] and
\* "bytes=-N" selects [0, N]; the pair is then validated against file_size
\* (416 when start >= size, end >= size or start > end, 206 otherwise).
C27_RangeParsing ==
    (RangeParsed /\ failure # "parse") =>
        /\ \A n \in 0..(MaxSize + 1) :
            /\ range_header = BytesEq \o Digits(n) \o <<45>> =>
                    start = n /\ end = file_size - 1
            /\ range_header = BytesEq \o <<45>> \o Digits(n) =>
                    start = 0 /\ end = n
            /\ \A m \in 0..(MaxSize + 1) :
                    range_header = BytesEq \o Digits(n) \o <<45>> \o Digits(m) =>
                        start = n /\ end = m
        /\ range_header = BytesEq \o <<45>> => start = 0 /\ end = file_size - 1
        /\ response.status =
              IF start >= file_size \/ end >= file_size \/ start > end THEN 416 ELSE 206

C27_Witness ==
    /\ range_header = BytesEq \o <<45, 50>>
    /\ file_size = 5
    /\ source_len = 5
    /\ start = 0
    /\ end = 2
    /\ response.status = 206
    /\ rpc = "returned"
    /\ response.body = <<0, 1, 2>>

\* C28: range read chunk size.  The limit a range request reads the Media
\* Source with is smaller than the one the full-body path uses for the same
\* file (the schedule's initial chunk size), and for the small ranges of the
\* model it is at most the smaller of Config.INITIAL_CHUNK_SIZE and a small
\* multiple (16 times) of the requested length end - start + 1.
C28_RangeChunkSize ==
    (RangeParsed /\ response.status = 206) =>
        /\ stream_limit < stream_settings.initial_chunk_size
        /\ stream_limit <= Min(INITIAL_CHUNK_SIZE, 16 * ((end - start) + 1))

\* The range handler on a producer that may also yield an empty chunk, for
\* the headers "bytes=<a>-<b>" with a <= 2 and a <= b
RangeAnyInit ==
    /\ RangeInit
    /\ \E a \in 0..2 : \E b \in a..MaxSize :
          range_header = BytesEq \o Digits(a) \o <<45>> \o Digits(b)

RangeAnyNext == RangeNext \/ RangeEmptyChunk

SpecRangeAny == RangeAnyInit /\ [][RangeAnyNext]_vars

\* C35: the range handler never over-delivers.  In every state of a 206
\* transfer the bytes written are at most end - start + 1, the declared
\* Content-Length, whatever chunks the Media Source yields (empty ones, more
\* bytes than file_size); and when the source ends before byte `end` the
\* handler returns, having written the fewer bytes there were, without failing.
C35_RangeNeverOverDelivers ==
    (RangeParsed /\ response.status = 206) =>
        /\ response.headers["Content-Length"] = ToString((end - start) + 1)
        /\ Len(response.body) <= (end - start) + 1
        /\ bytes_sent = Len(response.body)
        /\ \A k \in 1..Len(response.body) : response.body[k] = (start + k) - 1
        /\ (rpc = "returned" /\ source_len <= end) =>
            /\ failure = "none"
            /\ response.eof
            /\ Len(response.body) = Max(0, source_len - start)
            /\ Len(response.body) < (end - start) + 1

\* Bytes 1..4 of a 5-byte file were asked for and the source ended after 2
\* bytes and an empty chunk: one byte was written and the handler returned
C35_Witness ==
    /\ range_header = BytesEq \o <<49, 45, 52>>
    /\ file_size = 5
    /\ source_len = 2
    /\ chunks = <<1, 0, 1>>
    /\ response.status = 206
    /\ response.body = <<1>>
    /\ response.eof
    /\ rpc = "returned"
    /\ failure = "none"

----------------------------------------------------------------------------
(* web_server.py: sending a whole file.  stream_file without a Range header *)
(* (FileServer._adaptive_stream_file) and download_file.  The body is kept  *)
(* in blocks of `grain` bytes, block k written k, so that files of many     *)
(* megabytes (which the chunk schedule depends on) stay small: the producer *)
(* yields whole blocks and the handlers write each chunk whole.             *)

\* Bytes per block: 1 B, 256 KiB, 4 MiB, 128 MiB
Grains == {1, 262144, 4194304, 134217728}

\* Values of Config.MAX_CHUNK_SIZE: the default, a smaller and a larger one
MaxChunkSizes == {1048576, 4096, 2097152}

\* The files of the scenario: file_info['file_name'] and file_info['file_type']
StreamFiles ==
    {[file_name |-> "a.mp4", file_type |-> "video"],
     [file_name |-> "a.mkv", file_type |-> "video"],
     [file_name |-> "a.mp3", file_type |-> "audio"],
     [file_name |-> "b.pdf", file_type |-> "document"]}

\* MediaProcessor.get_proper_mime_type, for the file names of the model
get_proper_mime_type(filename, type) ==
    IF Extension(filename) = ".mp4" THEN "video/mp4"
    ELSE IF Extension(filename) = ".mkv" THEN "video/x-matroska"
    ELSE IF Extension(filename) = ".mp3" THEN "audio/mpeg"
    ELSE IF Extension(filename) = ".pdf" THEN "application/pdf"
    ELSE IF type = "video" THEN "video/mp4"
    ELSE IF type = "audio" THEN "audio/mpeg"
    ELSE "application/octet-stream"

\* MediaProcessor.get_optimized_streaming_headers(file_type, filename,
\* file_size), without X-Playback-Session-Id and the Content-Duration hint
get_optimized_streaming_headers(type, filename) ==
    LET common ==
            [h \in {"Accept-Ranges", "Cache-Control", "Access-Control-Allow-Origin",
                    "Access-Control-Allow-Methods", "Access-Control-Allow-Headers",
                    "X-Content-Type-Options", "Connection", "Content-Type"} |->
                CASE h = "Accept-Ranges" -> "bytes"
                  [] h = "Cache-Control" -> "public, max-age=3600"
                  [] h = "Access-Control-Allow-Origin" -> "*"
                  [] h = "Access-Control-Allow-Methods" -> "GET, HEAD, OPTIONS"
                  [] h = "Access-Control-Allow-Headers" -> "Range, Content-Type, Accept-Ranges"
                  [] h = "X-Content-Type-Options" -> "nosniff"
                  [] h = "Connection" -> "keep-alive"
                  [] h = "Content-Type" -> get_proper_mime_type(filename, type)]
    IN  IF type \in {"video", "audio"}
        THEN ("Transfer-Encoding" :> "chunked") @@ common
        ELSE common

\* max_chunk_size = min(stream_settings['max_chunk_size'], Config.MAX_CHUNK_SIZE)
MaxChunkSize(settings, config_max) == Min(settings.max_chunk_size, config_max)

\* A schedule that multiplies without the cap
NextChunkSizeUncapped(size, sent, settings, config_max) ==
    IF sent >= settings.buffer_target /\ size < MaxChunkSize(settings, config_max)
    THEN size * settings.buffer_multiplier
    ELSE size

\* "Dynamically adjust chunk size after building initial buffer": the value
\* of current_chunk_size after a chunk, buffer_sent being what was sent so far
NextChunkSize(size, sent, settings, config_max) ==
    IF sent >= settings.buffer_target /\ size < MaxChunkSize(settings, config_max)
    THEN Min(size * settings.buffer_multiplier, MaxChunkSize(settings, config_max))
    ELSE size

\* "0123456789abcdefABCDEF"
IsHex(c) == IsDigit(c) \/ (c >= 97 /\ c <= 102) \/ (c >= 65 /\ c <= 70)

HexValue(c) == IF IsDigit(c) THEN c - 48 ELSE IF c >= 97 THEN c - 87 ELSE c - 55

\* urllib.parse.unquote: "%XY" becomes the byte XY, decoded as UTF-8 with
\* errors='replace'; written for bytes below 128 and for a lone byte from 128
\* on, which decodes to U+FFFD
RECURSIVE unquote(_)
unquote(s) ==
    IF s = <<>> THEN <<>>
    ELSE IF s[1] = 37 /\ Len(s) >= 3 /\ IsHex(s[2]) /\ IsHex(s[3])
         THEN LET b == (16 * HexValue(s[2])) + HexValue(s[3])
              IN  <<IF b < 128 THEN b ELSE 65533>> \o unquote(SubSeq(s, 4, Len(s)))
    ELSE <<s[1]>> \o unquote(Tail(s))

\* "abcdefghijklmnopqrstuvwxyzABCDEFGHIJKLMNOPQRSTUVWXYZ0123456789-_.() "
IsSafeChar(c) ==
    \/ IsDigit(c)
    \/ (c >= 97 /\ c <= 122)
    \/ (c >= 65 /\ c <= 90)
    \/ c \in {45, 95, 46, 40, 41, 32}

\* "while cc in s: s = s.replace(cc, c)": runs of c become one c
RECURSIVE Collapse(_, _)
Collapse(s, c) ==
    IF Len(s) < 2 THEN s
    ELSE IF s[1] = c /\ s[2] = c THEN Collapse(Tail(s), c)
    ELSE <<s[1]>> \o Collapse(Tail(s), c)

\* str.strip(chars)
RECURSIVE Strip(_, _)
Strip(s, chars) ==
    IF Len(s) > 0 /\ s[1] \in chars THEN Strip(Tail(s), chars)
    ELSE IF Len(s) > 0 /\ s[Len(s)] \in chars THEN Strip(SubSeq(s, 1, Len(s) - 1), chars)
    ELSE s

\* MediaProcessor.generate_safe_filename
generate_safe_filename(filename) ==
    LET replaced == [i \in 1..Len(filename) |->
                        IF IsSafeChar(filename[i]) THEN filename[i] ELSE 95]
        stripped == Strip(Collapse(Collapse(replaced, 95), 32), {95, 46, 32})
    IN  IF stripped = <<>> THEN <<117, 110, 110, 97, 109, 101, 100, 95, 102, 105, 108, 101>> ELSE stripped

\* f'attachment; filename="{safe_filename}"'
ContentDisposition(safe_filename) == <<97, 116, 116, 97, 99, 104, 109, 101, 110, 116, 59, 32, 102, 105, 108, 101, 110, 97, 109, 101, 61, 34>> \o safe_filename \o <<34>>

\* The Content-Type download_file gives every file
DownloadContentType(filename) == "application/octet-stream"

\* Download headers that declare one byte less than the file has
DownloadHeadersShort(filename, size) ==
    ("Content-Type" :> DownloadContentType(filename))
        @@ ("Content-Length" :> ToString(size - 1))
        @@ ("Content-Disposition" :>
                ContentDisposition(generate_safe_filename(unquote(filename))))
        @@ ("Cache-Control" :> "no-cache")

\* The headers download_file sets on its response
DownloadHeaders(filename, size) ==
    ("Content-Type" :> DownloadContentType(filename))
        @@ ("Content-Length" :> ToString(size))
        @@ ("Content-Disposition" :>
                ContentDisposition(generate_safe_filename(unquote(filename))))
        @@ ("Cache-Control" :> "no-cache")

\* File names in the URL of a download: "report.pdf", "a.mp4",
\* "my file@.pdf", "a%20b.pdf", "x__y  z", "_.%2F", "café.mp3", "50%.txt"
DownloadNames ==
    {<<114, 101, 112, 111, 114, 116, 46, 112, 100, 102>>,
     <<97, 46, 109, 112, 52>>,
     <<109, 121, 32, 102, 105, 108, 101, 64, 46, 112, 100, 102>>,
     <<97, 37, 50, 48, 98, 46, 112, 100, 102>>,
     <<120, 95, 95, 121, 32, 32, 122>>,
     <<95, 46, 37, 50, 70>>,
     <<99, 97, 102, 233, 46, 109, 112, 51>>,
     <<53, 48, 37, 46, 116, 120, 116>>}

\* What request.headers.get('Range') is on a download request: nothing,
\* "bytes=1-2", "bytes=0-", "bytes=x-1".  download_file never reads it.
DownloadRanges ==
    {<<>>, BytesEq \o <<49, 45, 50>>, BytesEq \o <<48, 45>>, BytesEq \o <<120, 45, 49>>}

\* response.write(chunk) that forgets what was written before
WrittenAlone(body, chunk) == chunk

\* "await response.write(chunk)": the body the client has received
Written(body, chunk) == body \o chunk

\* A handler is about to send a whole file: stream_file has passed its
\* checks and found no Range header, or download_file has passed its checks
StreamInit ==
    /\ SECRET_KEY = "your-secret-key-here"
    /\ cinput = <<>>
    /\ CodecIdle
    /\ ServerIdle
    /\ StampedeIdle
    /\ handler \in {"stream", "download"}
    /\ IF handler = "stream"
       THEN /\ \E f \in StreamFiles : file_name = f.file_name /\ file_type = f.file_type
            /\ url_filename = <<97, 46, 109, 112, 52>>
            /\ grain \in Grains
            /\ MAX_CHUNK_SIZE \in MaxChunkSizes
       ELSE /\ file_name = "b.pdf"
            /\ file_type = "document"
            /\ url_filename \in DownloadNames
            /\ grain = 1
            /\ MAX_CHUNK_SIZE = 1048576
    /\ source_len \in 0..MaxSize
    /\ file_size = source_len * grain
    /\ range_header \in IF handler = "download" THEN DownloadRanges ELSE {<<>>}
    /\ start = 0
    /\ end = 0
    /\ current_pos = 0
    /\ bytes_sent = 0
    /\ response = [status |-> 0, headers |-> <<>>, prepared |-> FALSE,
                   body |-> <<>>, eof |-> FALSE]
    /\ produced = 0
    /\ chunks = <<>>
    /\ opened = FALSE
    /\ released = FALSE
    /\ failure = "none"
    /\ stream_limit = 0
    /\ rpc = "entry"
    /\ stream_settings = <<>>
    /\ current_chunk_size = 0
    /\ buffer_sent = 0
    /\ chunk_sizes = <<>>
    /\ yields = 0

\* stream_file, lines 96-118, and the head of _adaptive_stream_file: settings,
\* headers, web.StreamResponse(), response.prepare, the locals of the streamer
StreamPrepare ==
    /\ handler = "stream"
    /\ rpc = "entry"
    /\ LET settings == get_streaming_optimization_settings(file_name, file_size)
       IN  /\ stream_settings' = settings
           /\ current_chunk_size' = settings.initial_chunk_size
           /\ chunk_sizes' = <<settings.initial_chunk_size>>
           /\ stream_limit' = settings.initial_chunk_size
    /\ response' = [status |-> 200,
                    headers |-> get_optimized_streaming_headers(file_type, file_name),
                    prepared |-> TRUE, body |-> <<>>, eof |-> FALSE]
    /\ bytes_sent' = 0
    /\ buffer_sent' = 0
    /\ rpc' = "sending"
    /\ UNCHANGED <<range_header, file_size, source_len, start, end, current_pos,
                   produced, chunks, opened, released, failure>>
    /\ UNCHANGED <<handler, file_name, file_type, url_filename, grain, MAX_CHUNK_SIZE,
                   yields>>
    /\ UNCHANGED <<codecVars, serverVars, calls>>

\* download_file, lines 152-166: headers, response.prepare, bytes_sent = 0
DownloadPrepare ==
    /\ handler = "download"
    /\ rpc = "entry"
    /\ response' = [status |-> 200,
                    headers |-> DownloadHeaders(url_filename, file_size),
                    prepared |-> TRUE, body |-> <<>>, eof |-> FALSE]
    /\ bytes_sent' = 0
    /\ stream_limit' = CHUNK_SIZE
    /\ rpc' = "sending"
    /\ UNCHANGED <<range_header, file_size, source_len, start, end, current_pos,
                   produced, chunks, opened, released, failure>>
    /\ UNCHANGED streamVars
    /\ UNCHANGED <<codecVars, serverVars, calls>>

\* "if bytes_sent % (1024 * 1024) == 0: await asyncio.sleep(0)"
YieldsNow(sent) == sent % (1024 * 1024) = 0

\* One turn of the loop of _adaptive_stream_file: the producer yields n
\* blocks, the handler writes them, adjusts current_chunk_size and, on a
\* megabyte count, yields to the event loop
AdaptiveChunk ==
    /\ handler = "stream"
    /\ rpc = "sending"
    /\ \E n \in 1..Min(MaxChunk, source_len - produced) :
        /\ produced' = produced + n
        /\ chunks' = Append(chunks, n)
        /\ response' = [response EXCEPT !.body = Written(@, Chunk(produced, n))]
        /\ bytes_sent' = bytes_sent + (n * grain)
        /\ buffer_sent' = buffer_sent + (n * grain)
        /\ current_chunk_size' =
              NextChunkSize(current_chunk_size, buffer_sent + (n * grain),
                            stream_settings, MAX_CHUNK_SIZE)
        /\ chunk_sizes' = Append(chunk_sizes, current_chunk_size')
        /\ yields' = IF YieldsNow(bytes_sent + (n * grain)) THEN yields + 1 ELSE yields
    /\ opened' = TRUE
    /\ UNCHANGED stream_limit
    /\ UNCHANGED <<range_header, file_size, source_len, start, end, current_pos,
                   released, failure, rpc>>
    /\ UNCHANGED <<handler, file_name, file_type, url_filename, grain, MAX_CHUNK_SIZE,
                   stream_settings>>
    /\ UNCHANGED <<codecVars, serverVars, calls>>

\* One turn of the loop of download_file
DownloadChunk ==
    /\ handler = "download"
    /\ rpc = "sending"
    /\ \E n \in 1..Min(MaxChunk, source_len - produced) :
        /\ produced' = produced + n
        /\ chunks' = Append(chunks, n)
        /\ response' = [response EXCEPT !.body = Written(@, Chunk(produced, n))]
        /\ bytes_sent' = bytes_sent + (n * grain)
    /\ opened' = TRUE
    /\ UNCHANGED stream_limit
    /\ UNCHANGED <<range_header, file_size, source_len, start, end, current_pos,
                   released, failure, rpc>>
    /\ UNCHANGED streamVars
    /\ UNCHANGED <<codecVars, serverVars, calls>>

\* The producer has no more bytes: the loop ends, response.write_eof(), return
SendExhausted ==
    /\ rpc = "sending"
    /\ produced = source_len
    /\ opened' = TRUE
    /\ released' = TRUE
    /\ response' = [response EXCEPT !.eof = TRUE]
    /\ rpc' = "returned"
    /\ UNCHANGED stream_limit
    /\ UNCHANGED <<range_header, file_size, source_len, start, end, current_pos,
                   bytes_sent, produced, chunks, failure>>
    /\ UNCHANGED streamVars
    /\ UNCHANGED <<codecVars, serverVars, calls>>

\* stream_media raises instead of yielding.  _adaptive_stream_file logs and
\* re-raises, and "except Exception" of stream_file (of download_file) raises
\* web.HTTPInternalServerError
SendSourceRaises ==
    /\ rpc = "sending"
    /\ opened' = TRUE
    /\ released' = TRUE
    /\ failure' = "source"
    /\ rpc' = "raised"
    /\ UNCHANGED stream_limit
    /\ UNCHANGED <<range_header, file_size, source_len, start, end, current_pos,
                   bytes_sent, response, produced, chunks>>
    /\ UNCHANGED streamVars
    /\ UNCHANGED <<codecVars, serverVars, calls>>

\* response.write raises on the chunk just yielded (the client is gone): the
\* same path, to web.HTTPInternalServerError
SendWriteRaises ==
    /\ rpc = "sending"
    /\ \E n \in 1..Min(MaxChunk, source_len - produced) :
        /\ produced' = produced + n
        /\ chunks' = Append(chunks, n)
    /\ opened' = TRUE
    /\ failure' \in WriteFailures
    /\ rpc' = "raised"
    /\ UNCHANGED stream_limit
    /\ UNCHANGED <<range_header, file_size, source_len, start, end, current_pos,
                   bytes_sent, response, released>>
    /\ UNCHANGED streamVars
    /\ UNCHANGED <<codecVars, serverVars, calls>>

StreamNext ==
    \/ StreamPrepare
    \/ DownloadPrepare
    \/ AdaptiveChunk
    \/ DownloadChunk
    \/ SendExhausted
    \/ SendSourceRaises
    \/ SendWriteRaises
    \/ ProducerFinalized

SpecStream == StreamInit /\ [][StreamNext]_vars

----------------------------------------------------------------------------
(* Claims about sending a whole file *)

\* The handler has built and prepared its response
Sending == rpc \in {"sending", "returned", "raised"}

\* C12: chunk growth monotonicity.  During one full-body response the current
\* chunk size never decreases from one chunk to the next, and is in every
\* state at most min(the schedule's max_chunk_size, Config.MAX_CHUNK_SIZE).
C12_ChunkGrowth ==
    (handler = "stream" /\ Sending) =>
        \A i \in 1..Len(chunk_sizes) :
            /\ chunk_sizes[i] <= Min(stream_settings.max_chunk_size, MAX_CHUNK_SIZE)
            /\ i > 1 => chunk_sizes[i - 1] <= chunk_sizes[i]

\* The first n blocks of the file the Media Source holds
FilePrefix(n) == [k \in 1..n |-> k - 1]

\* C13: full-body delivery.  A /stream request with a filename and no Range
\* header for a resolvable file is answered 200; what has been written is at
\* every moment the beginning of the file, in file order, and when the source
\* has been read to its end without failure it is the whole file, for any
\* chunking by the Media Source.
C13_FullBody ==
    (handler = "stream" /\ Sending) =>
        /\ response.status = 200
        /\ response.prepared
        /\ response.body = FilePrefix(Len(response.body))
        /\ bytes_sent = Len(response.body) * grain
        /\ rpc = "returned" =>
            /\ response.body = FilePrefix(source_len)
            /\ bytes_sent = file_size
            /\ response.eof

\* A file of 6 bytes was sent whole from chunks of 1, 3 and 2 bytes
C13_Witness ==
    /\ handler = "stream"
    /\ rpc = "returned"
    /\ grain = 1
    /\ chunks = <<1, 3, 2>>
    /\ response.status = 200
    /\ response.body = <<0, 1, 2, 3, 4, 5>>
    /\ response.eof

\* C14: every 200 full-body /stream response carries a Content-Length header
\* equal to the file's exact size in bytes.
C14_ContentLength ==
    (handler = "stream" /\ Sending /\ response.status = 200) =>
        /\ "Content-Length" \in DOMAIN response.headers
        /\ response.headers["Content-Length"] = ToString(file_size)

\* The Content-Type a file name's extension stands for
TypeOfExtension(name) ==
    LET n == Len(name)
        ext == IF n >= 4 THEN SubSeq(name, n - 3, n) ELSE <<>>
    IN  IF ext = <<46, 112, 100, 102>> THEN "application/pdf"
        ELSE IF ext = <<46, 109, 112, 52>> THEN "video/mp4"
        ELSE IF ext = <<46, 109, 112, 51>> THEN "audio/mpeg"
        ELSE IF ext = <<46, 116, 120, 116>> THEN "text/plain"
        ELSE "application/octet-stream"

\* C15: a /download/<id>/<filename> request is answered 200 with
\* Content-Disposition attachment; filename="<filename>" (for a filename that
\* needs no decoding or cleaning) and a Content-Type derived from the
\* filename's extension, application/octet-stream only when none can be derived.
C15_DownloadHeaders ==
    (handler = "download" /\ Sending) =>
        /\ response.status = 200
        /\ "Content-Disposition" \in DOMAIN response.headers
        /\ generate_safe_filename(unquote(url_filename)) = url_filename =>
              response.headers["Content-Disposition"] = <<97, 116, 116, 97, 99, 104, 109, 101, 110, 116, 59, 32, 102, 105, 108, 101, 110, 97, 109, 101, 61, 34>> \o url_filename \o <<34>>
        /\ "Content-Type" \in DOMAIN response.headers
        /\ response.headers["Content-Type"] = TypeOfExtension(unquote(url_filename))

\* C16: full-body client disconnect.  When a write to the client fails during
\* adaptive streaming, no further chunk is read or written and the handler
\* ends without raising an error to the route layer.
C16_StreamDisconnect ==
    (handler = "stream" /\ failure \in WriteFailures) => rpc = "returned"

\* C18: upstream failure during a full-body stream.  If the Media Source
\* fails before the response is committed the request ends with a 500; if it
\* fails after the headers have been sent, the handler emits no new status
\* and no error body (it raises no HTTP error to the route layer).
C18_UpstreamFailure ==
    (handler = "stream" /\ failure = "source") =>
        /\ ~response.prepared => rpc = "raised"
        /\ response.prepared => rpc # "raised"

\* C19: producer release.  For every streaming response (full-body, range,
\* download) the producer opened for it is released on every exit path
\* (completion, early break, client disconnect, upstream error): no handler
\* has ended with its producer still open.
C19_ProducerRelease ==
    (rpc \in {"returned", "raised"} /\ opened) => released

\* Bytes delivered once the first i chunks have been written
SentAfter(i) ==
    LET S[k \in 0..i] == IF k = 0 THEN 0 ELSE S[k - 1] + (chunks[k] * grain)
    IN  S[i]

\* The least k with initial * multiplier^k >= max: ceil(log_multiplier(max / initial))
StepsToMax(initial, multiplier, max) ==
    LET P[k \in 0..24] == IF k = 0 THEN initial ELSE Min(P[k - 1] * multiplier, max)
    IN  CHOOSE k \in 0..24 : P[k] >= max /\ \A j \in 0..(k - 1) : P[j] < max

\* C24: growth rule.  The chunk size is the schedule's initial value while the
\* bytes delivered are below buffer_target; after each chunk that leaves the
\* bytes delivered at or above buffer_target with the size below max, the size
\* becomes min(size * buffer_multiplier, max); and from
\* ceil(log_multiplier(max / initial)) such chunks on the size is max for the
\* rest of the response.
C24_GrowthRule ==
    (handler = "stream" /\ Sending) =>
        LET initial == stream_settings.initial_chunk_size
            max == MaxChunkSize(stream_settings, MAX_CHUNK_SIZE)
            multiplier == stream_settings.buffer_multiplier
            target == stream_settings.buffer_target
            steps == StepsToMax(initial, multiplier, max)
        IN  /\ chunk_sizes[1] = initial
            /\ \A i \in 1..(Len(chunk_sizes) - 1) :
                /\ SentAfter(i) < target => chunk_sizes[i + 1] = initial
                /\ (SentAfter(i) >= target /\ chunk_sizes[i] < max) =>
                        chunk_sizes[i + 1] = Min(chunk_sizes[i] * multiplier, max)
                /\ \A j \in 1..i :
                        (SentAfter(j) >= target /\ (i - j) + 1 >= steps) =>
                            chunk_sizes[i + 1] = max

\* C25: once the streamer has scaled its chunk size up, every later read of the
\* Media Source is issued with the chunk size then current as its limit: the
\* i-th read, issued when current_chunk_size is chunk_sizes[i], carries it.
C25_HintTracksChunkSize ==
    (handler = "stream" /\ Sending) =>
        \A i \in 1..Len(chunks) :
            chunk_sizes[i] > chunk_sizes[1] => stream_limit = chunk_sizes[i]

\* C29: cooperative yielding.  During a full-body transfer the streamer yields
\* at every megabyte boundary of the bytes delivered, whatever the chunk
\* lengths: when k MiB have been delivered it has yielded at least k times.
\* Stated for the chunk sequences that cross one boundary at a time at most
\* (no chunk longer than 1 MiB).
C29_CooperativeYield ==
    (/\ handler = "stream"
     /\ Sending
     /\ \A i \in 1..Len(chunks) : chunks[i] * grain <= 1024 * 1024) =>
        yields >= bytes_sent \div (1024 * 1024)

\* C37: /download ignores any Range header.  With or without one, a download
\* of a resolvable in-limit file with a filename is answered 200 (never 206 or
\* 416) with Content-Length equal to the full file size, and what is written
\* is the file from offset 0 in order: the whole file once the source has been
\* read to its end.
C37_DownloadIgnoresRange ==
    (handler = "download" /\ Sending) =>
        /\ response.status = 200
        /\ response.prepared
        /\ "Content-Length" \in DOMAIN response.headers
        /\ response.headers["Content-Length"] = ToString(file_size)
        /\ "Content-Range" \notin DOMAIN response.headers
        /\ response.body = FilePrefix(Len(response.body))
        /\ bytes_sent = Len(response.body)
        /\ rpc = "returned" =>
            /\ response.body = FilePrefix(file_size)
            /\ response.eof

\* A download with "Range: bytes=1-2" of a 4-byte file has sent all 4 bytes
C37_Witness ==
    /\ handler = "download"
    /\ range_header = BytesEq \o <<49, 45, 50>>
    /\ rpc = "returned"
    /\ file_size = 4
    /\ chunks = <<3, 1>>
    /\ response.status = 200
    /\ response.body = <<0, 1, 2, 3>>
    /\ response.eof

----------------------------------------------------------------------------
(* web_server.py: stream_file from the filename check on.  A /stream        *)
(* request for the video "a.mp4" has been resolved, is within the size      *)
(* limit and names the file; stream_file computes settings and headers and  *)
(* hands the request to the range handler or to the adaptive streamer.      *)

\* request.headers.get('Range') when the request has no Range header (None):
\* a value no header text has
NoRangeHeader == <<-1>>

\* What request.headers.get('Range') can be: None, the empty string of a
\* "Range:" line without a value, or a header of the range scenario
DispatchHeaders == {NoRangeHeader, <<>>} \cup RangeHeaders

\* "if range_header:": neither None nor the empty string
RangeRequested(header) == header \notin {NoRangeHeader, <<>>}

DispatchInit ==
    /\ SECRET_KEY = "your-secret-key-here"
    /\ cinput = <<>>
    /\ CodecIdle
    /\ ServerIdle
    /\ StampedeIdle
    /\ handler = "stream"
    /\ file_name = "a.mp4"
    /\ file_type = "video"
    /\ url_filename = <<97, 46, 109, 112, 52>>
    /\ grain = 1
    /\ MAX_CHUNK_SIZE = 1048576
    /\ stream_settings = <<>>
    /\ current_chunk_size = 0
    /\ buffer_sent = 0
    /\ chunk_sizes = <<>>
    /\ yields = 0
    /\ range_header \in DispatchHeaders
    /\ file_size \in 0..MaxSize
    /\ source_len \in 0..MaxSize
    /\ start = 0
    /\ end = 0
    /\ current_pos = 0
    /\ bytes_sent = 0
    /\ response = [status |-> 0, headers |-> <<>>, prepared |-> FALSE,
                   body |-> <<>>, eof |-> FALSE]
    /\ produced = 0
    /\ chunks = <<>>
    /\ opened = FALSE
    /\ released = FALSE
    /\ failure = "none"
    /\ stream_limit = 0
    /\ rpc = "decoded"

\* stream_file, lines 96-121: settings, headers, web.StreamResponse(), then
\* "if range_header: return await self._handle_range_request_optimized(...)",
\* else response.prepare and the head of _adaptive_stream_file
Dispatch ==
    /\ handler = "stream"
    /\ rpc = "decoded"
    /\ LET settings == get_streaming_optimization_settings(file_name, file_size)
           headers == get_optimized_streaming_headers(file_type, file_name)
       IN  /\ stream_settings' = settings
           /\ IF RangeRequested(range_header)
              THEN /\ response' = [status |-> 200, headers |-> headers,
                                   prepared |-> FALSE, body |-> <<>>, eof |-> FALSE]
                   /\ rpc' = "entry"
                   /\ UNCHANGED <<current_chunk_size, chunk_sizes, stream_limit>>
              ELSE /\ response' = [status |-> 200, headers |-> headers,
                                   prepared |-> TRUE, body |-> <<>>, eof |-> FALSE]
                   /\ current_chunk_size' = settings.initial_chunk_size
                   /\ chunk_sizes' = <<settings.initial_chunk_size>>
                   /\ stream_limit' = settings.initial_chunk_size
                   /\ rpc' = "sending"
    /\ UNCHANGED <<range_header, file_size, source_len, start, end, current_pos,
                   bytes_sent, produced, chunks, opened, released, failure>>
    /\ UNCHANGED <<handler, file_name, file_type, url_filename, grain, MAX_CHUNK_SIZE,
                   buffer_sent, yields>>
    /\ UNCHANGED <<codecVars, serverVars, calls>>

DispatchNext ==
    \/ Dispatch
    \/ RangeParse
    \/ RangeChunk
    \/ RangeExhausted
    \/ RangeSourceRaises
    \/ RangeWriteRaises
    \/ AdaptiveChunk
    \/ SendExhausted
    \/ SendSourceRaises
    \/ SendWriteRaises
    \/ ProducerFinalized

SpecDispatch == DispatchInit /\ [][DispatchNext]_vars

\* The range handler has run: it answered 206 or 416, or its parse raised
RangeHandled == response.status \in {206, 416} \/ failure = "parse"

\* The adaptive streamer has run: it has set its locals
AdaptiveHandled == chunk_sizes # <<>>

\* C30: dispatch.  A /stream request past resolution, size check and filename
\* check is handled by the range handler, which answers 206 or 416, when it
\* has a Range header, and by the adaptive streamer, with status 200, when it
\* has none; never by both, and no request with a Range header ends in 200.
C30_Dispatch ==
    (handler = "stream" /\ rpc \in {"returned", "raised"}) =>
        /\ ~(RangeHandled /\ AdaptiveHandled)
        /\ range_header # NoRangeHeader =>
            /\ RangeHandled
            /\ ~AdaptiveHandled
            /\ response.prepared
            /\ response.status \in {206, 416}
        /\ range_header = NoRangeHeader =>
            /\ AdaptiveHandled
            /\ ~RangeHandled
            /\ response.prepared
            /\ response.status = 200

(***************************************************************************)
(* media_utils.py: MediaProcessor.get_streaming_optimization_settings      *)
(* called with a file name and a size, by stream_file (with the file's     *)
(* size) and by web_player (with size 0).                                  *)
(***************************************************************************)

\* File names by kind: plain video, high-bitrate video (one in upper case),
\* audio, and names that are neither (no extension, a media extension that
\* is not at the end, an extension without its dot)
ScheduleNames ==
    {"a.mp4", "a b.mp4", "a.webm", "a.mkv", "A.MKV", "a.avi", "a.mov",
     "a.mp3", "a.wav", "b.pdf", "", "a.mp4.txt", "mkv"}

\* File sizes at and around the two thresholds of the size adjustment
ScheduleSizes ==
    {0, 1, 10000000, (10 * 1024 * 1024) - 1, 10 * 1024 * 1024, (10 * 1024 * 1024) + 1,
     500000000, (500 * 1024 * 1024) - 1, 500 * 1024 * 1024, (500 * 1024 * 1024) + 1,
     2000000000}

ScheduleInit ==
    /\ SECRET_KEY = "your-secret-key-here"
    /\ cinput = <<>>
    /\ CodecIdle
    /\ ServerIdle
    /\ StampedeIdle
    /\ handler \in {"stream", "play"}
    /\ file_name \in ScheduleNames
    /\ file_type = "document"
    /\ url_filename = <<>>
    /\ grain = 1
    /\ MAX_CHUNK_SIZE = 1048576
    /\ stream_settings = <<>>
    /\ current_chunk_size = 0
    /\ buffer_sent = 0
    /\ chunk_sizes = <<>>
    /\ yields = 0
    /\ range_header = <<>>
    /\ file_size \in ScheduleSizes
    /\ source_len = 0
    /\ start = 0
    /\ end = 0
    /\ current_pos = 0
    /\ bytes_sent = 0
    /\ response = [status |-> 0, headers |-> <<>>, prepared |-> FALSE,
                   body |-> <<>>, eof |-> FALSE]
    /\ produced = 0
    /\ chunks = <<>>
    /\ opened = FALSE
    /\ released = FALSE
    /\ failure = "none"
    /\ stream_limit = 0
    /\ rpc = "schedule"

\* stream_file, lines 96-99: the settings for the file's name and size
ScheduleStream ==
    /\ rpc = "schedule"
    /\ handler = "stream"
    /\ stream_settings' = get_streaming_optimization_settings(file_name, file_size)
    /\ rpc' = "scheduled"
    /\ UNCHANGED <<range_header, file_size, source_len, start, end, current_pos,
                   bytes_sent, response, produced, chunks, opened, released,
                   failure, stream_limit>>
    /\ UNCHANGED <<handler, file_name, file_type, url_filename, grain, MAX_CHUNK_SIZE,
                   current_chunk_size, buffer_sent, chunk_sizes, yields>>
    /\ UNCHANGED <<codecVars, serverVars, calls>>

\* web_player, line 255: the settings for the file's name and size 0
SchedulePlayer ==
    /\ rpc = "schedule"
    /\ handler = "play"
    /\ stream_settings' = get_streaming_optimization_settings(file_name, 0)
    /\ rpc' = "scheduled"
    /\ UNCHANGED <<range_header, file_size, source_len, start, end, current_pos,
                   bytes_sent, response, produced, chunks, opened, released,
                   failure, stream_limit>>
    /\ UNCHANGED <<handler, file_name, file_type, url_filename, grain, MAX_CHUNK_SIZE,
                   current_chunk_size, buffer_sent, chunk_sizes, yields>>
    /\ UNCHANGED <<codecVars, serverVars, calls>>

ScheduleNext == ScheduleStream \/ SchedulePlayer

SpecSchedule == ScheduleInit /\ [][ScheduleNext]_vars

\* The kinds of file name the schedule distinguishes
PlainVideoNames == {"a.mp4", "a b.mp4", "a.webm"}
HighBitrateNames == {"a.mkv", "A.MKV", "a.avi", "a.mov"}
NonMediaNames == {"b.pdf", "", "a.mp4.txt", "mkv"}

\* The size the schedule was computed for
ScheduledSize == IF handler = "play" THEN 0 ELSE file_size

\* C33: the chunk-size schedule.  The settings are a function of (filename,
\* size) alone, and for every name and size: a video's initial chunk is at
\* most a non-media file's of the same size, a .mkv/.avi/.mov file's at most
\* another video's; a file under 10 MB gets an initial chunk of at most 8 KB,
\* the smallest of all inputs, and a buffer target of at most 512 KB; a file
\* over 500 MB gets a buffer target of at least 8 MB; and for the same name
\* the buffer target of a smaller file is never larger (KB and MB in powers
\* of 1024).
C33_ChunkSizeSchedule ==
    rpc = "scheduled" =>
        LET s == stream_settings
            size == ScheduledSize
        IN  /\ s = get_streaming_optimization_settings(file_name, size)
            /\ \A g \in ScheduleNames :
                 LET t == get_streaming_optimization_settings(g, size)
                 IN  /\ (file_name \in PlainVideoNames \cup HighBitrateNames
                            /\ g \in NonMediaNames)
                        => s.initial_chunk_size <= t.initial_chunk_size
                     /\ (file_name \in HighBitrateNames /\ g \in PlainVideoNames)
                        => s.initial_chunk_size <= t.initial_chunk_size
            /\ size < 10 * 1024 * 1024 =>
                 /\ s.initial_chunk_size <= 8 * 1024
                 /\ s.buffer_target <= 512 * 1024
                 /\ \A g \in ScheduleNames : \A z \in ScheduleSizes :
                      s.initial_chunk_size <=
                        get_streaming_optimization_settings(g, z).initial_chunk_size
            /\ size > 500 * 1024 * 1024 => s.buffer_target >= 8 * 1024 * 1024
            /\ \A z \in ScheduleSizes :
                 z <= size =>
                   get_streaming_optimization_settings(file_name, z).buffer_target
                     <= s.buffer_target

\* The settings of an upper-case .MKV file of 10,000,000 bytes: 8 KiB and
\* 512 KiB, against 6 MiB for the same name at 10 MiB
C33_Witness ==
    /\ rpc = "scheduled"
    /\ handler = "stream"
    /\ file_name = "A.MKV"
    /\ file_size = 10000000
    /\ stream_settings.initial_chunk_size = 8192
    /\ stream_settings.buffer_target = 512 * 1024
    /\ get_streaming_optimization_settings("A.MKV", 10 * 1024 * 1024).buffer_target
         = 6 * 1024 * 1024
    /\ get_streaming_optimization_settings("A.MKV", 10 * 1024 * 1024).initial_chunk_size
         = 16384

(***************************************************************************)
(* web_server.py: two requests for the same file being answered at the     *)
(* same time, each by _adaptive_stream_file or by the streaming loop of    *)
(* _handle_range_request_optimized.  Both hold the same cached file_info;  *)
(* each has its own response, its own local variables and the generator    *)
(* its own call of stream_media returned.  The coroutines are interleaved  *)
(* at their awaits: the read of the next chunk and the write of a chunk.   *)
(* In this scenario the per-request variables hold one value per response. *)
(***************************************************************************)

Responses == {1, 2}

\* The largest file the two responses are followed on
MaxShared == 4

\* An offset taken from one generator that both responses would consume
ProducerOffsetShared(offsets, i) == offsets[1] + offsets[2]

\* "self.bot.stream_media(file_info['message'], limit=...)": each call returns
\* a new generator, which starts at offset 0 and advances with its own reads
ProducerOffset(offsets, i) == offsets[i]

ConcurrentInit ==
    /\ SECRET_KEY = "your-secret-key-here"
    /\ cinput = <<>>
    /\ CodecIdle
    /\ ServerIdle
    /\ StampedeIdle
    /\ file_name = "a.mp4"
    /\ file_type = "video"
    /\ url_filename = <<97, 46, 109, 112, 52>>
    /\ grain = 1
    /\ MAX_CHUNK_SIZE = 1048576
    /\ range_header = <<>>
    /\ file_size \in 0..MaxShared
    /\ source_len = file_size
    /\ stream_settings = get_streaming_optimization_settings(file_name, file_size)
    /\ handler \in [Responses -> IF file_size >= 2 THEN {"stream", "range"} ELSE {"stream"}]
    /\ start = [i \in Responses |-> IF handler[i] = "range" THEN 1 ELSE 0]
    /\ end \in [Responses -> 0..MaxShared]
    /\ \A i \in Responses :
          IF handler[i] = "range" THEN end[i] \in {1, file_size - 1} ELSE end[i] = 0
    /\ current_pos = [i \in Responses |-> 0]
    /\ bytes_sent = [i \in Responses |-> 0]
    /\ buffer_sent = [i \in Responses |-> 0]
    /\ current_chunk_size = [i \in Responses |-> stream_settings.initial_chunk_size]
    /\ chunk_sizes = <<>>
    /\ yields = [i \in Responses |-> 0]
    /\ response =
          [i \in Responses |->
              [status |-> IF handler[i] = "range" THEN 206 ELSE 200,
               headers |-> <<>>, prepared |-> TRUE, body |-> <<>>, eof |-> FALSE]]
    /\ produced = [i \in Responses |-> 0]
    /\ chunks = [i \in Responses |-> <<>>]
    /\ opened = [i \in Responses |-> FALSE]
    /\ released = [i \in Responses |-> FALSE]
    /\ failure = [i \in Responses |-> "none"]
    /\ stream_limit = 0
    /\ rpc = [i \in Responses |-> "reading"]

\* The chunk response i holds: the last one its generator yielded
HeldChunk(i) ==
    LET c == chunks[i][Len(chunks[i])] IN Chunk(c[1], c[2])

\* "async for chunk in self.bot.stream_media(...)": response i awaits the next
\* chunk of its generator, n >= 1 bytes
ConcurrentRead(i) ==
    /\ rpc[i] = "reading"
    /\ LET offset == ProducerOffset(produced, i)
       IN  \E n \in 1..Min(MaxChunk, source_len - offset) :
              /\ produced' = [produced EXCEPT ![i] = @ + n]
              /\ chunks' = [chunks EXCEPT ![i] = Append(@, <<offset, n>>)]
    /\ opened' = [opened EXCEPT ![i] = TRUE]
    /\ rpc' = [rpc EXCEPT ![i] = "holding"]
    /\ UNCHANGED <<range_header, file_size, source_len, start, end, current_pos,
                   bytes_sent, response, released, failure, stream_limit>>
    /\ UNCHANGED streamVars
    /\ UNCHANGED <<codecVars, serverVars, calls>>

\* The rest of a turn of the loop of _adaptive_stream_file for response i:
\* "await response.write(chunk)" and the counters
ConcurrentAdaptiveWrite(i) ==
    /\ rpc[i] = "holding"
    /\ handler[i] = "stream"
    /\ LET chunk == HeldChunk(i)
           n == Len(chunk)
       IN  /\ response' = [response EXCEPT ![i].body = Written(@, chunk)]
           /\ bytes_sent' = [bytes_sent EXCEPT ![i] = @ + n]
           /\ buffer_sent' = [buffer_sent EXCEPT ![i] = @ + n]
           /\ current_chunk_size' =
                 [current_chunk_size EXCEPT ![i] =
                     NextChunkSize(@, buffer_sent[i] + n, stream_settings, MAX_CHUNK_SIZE)]
           /\ yields' = [yields EXCEPT ![i] = IF YieldsNow(bytes_sent[i] + n) THEN @ + 1 ELSE @]
    /\ rpc' = [rpc EXCEPT ![i] = "reading"]
    /\ UNCHANGED <<range_header, file_size, source_len, start, end, current_pos,
                   produced, chunks, opened, released, failure, stream_limit>>
    /\ UNCHANGED <<handler, file_name, file_type, url_filename, grain, MAX_CHUNK_SIZE,
                   stream_settings, chunk_sizes>>
    /\ UNCHANGED <<codecVars, serverVars, calls>>

\* The rest of a turn of the range loop for response i: skip, break, or
\* write the part of the chunk that lies in the range
ConcurrentRangeWrite(i) ==
    /\ rpc[i] = "holding"
    /\ handler[i] = "range"
    /\ LET chunk == HeldChunk(i)
           n == Len(chunk)
           chunk_end == current_pos[i] + n
           chunk_start == Max(0, start[i] - current_pos[i])
           chunk_end_trim == ChunkEndTrim(n, end[i], current_pos[i])
           chunk_data == Slice(chunk, chunk_start, chunk_end_trim)
       IN  IF chunk_end <= start[i]
           THEN /\ current_pos' = [current_pos EXCEPT ![i] = chunk_end]
                /\ rpc' = [rpc EXCEPT ![i] = "reading"]
                /\ UNCHANGED <<bytes_sent, response, released>>
           ELSE IF current_pos[i] > end[i]
           THEN /\ response' = [response EXCEPT ![i].eof = TRUE]
                /\ rpc' = [rpc EXCEPT ![i] = "returned"]
                /\ released' = [released EXCEPT ![i] = TRUE]
                /\ UNCHANGED <<current_pos, bytes_sent>>
           ELSE IF chunk_start < chunk_end_trim
           THEN /\ bytes_sent' = [bytes_sent EXCEPT ![i] = @ + Len(chunk_data)]
                /\ IF RangeSatisfied(bytes_sent[i] + Len(chunk_data), (end[i] - start[i]) + 1)
                   THEN /\ response' = [response EXCEPT ![i].body = @ \o chunk_data,
                                                        ![i].eof = TRUE]
                        /\ rpc' = [rpc EXCEPT ![i] = "returned"]
                        /\ released' = [released EXCEPT ![i] = TRUE]
                        /\ UNCHANGED current_pos
                   ELSE /\ response' = [response EXCEPT ![i].body = @ \o chunk_data]
                        /\ current_pos' = [current_pos EXCEPT ![i] = @ + n]
                        /\ rpc' = [rpc EXCEPT ![i] = "reading"]
                        /\ UNCHANGED released
           ELSE /\ current_pos' = [current_pos EXCEPT ![i] = @ + n]
                /\ rpc' = [rpc EXCEPT ![i] = "reading"]
                /\ UNCHANGED <<bytes_sent, response, released>>
    /\ UNCHANGED <<range_header, file_size, source_len, start, end, produced,
                   chunks, opened, failure, stream_limit>>
    /\ UNCHANGED streamVars
    /\ UNCHANGED <<codecVars, serverVars, calls>>

\* "await response.write(...)" raises for response i: its client has gone
ConcurrentWriteRaises(i) ==
    /\ rpc[i] = "holding"
    /\ handler[i] = "stream"
    /\ failure' = [failure EXCEPT ![i] = "write"]
    /\ rpc' = [rpc EXCEPT ![i] = "raised"]
    /\ UNCHANGED <<range_header, file_size, source_len, start, end, current_pos,
                   bytes_sent, response, produced, chunks, opened, released,
                   stream_limit>>
    /\ UNCHANGED streamVars
    /\ UNCHANGED <<codecVars, serverVars, calls>>

\* The generator of response i has no more bytes: the loop ends,
\* response.write_eof(), return
ConcurrentExhausted(i) ==
    /\ rpc[i] = "reading"
    /\ ProducerOffset(produced, i) >= source_len
    /\ opened' = [opened EXCEPT ![i] = TRUE]
    /\ released' = [released EXCEPT ![i] = TRUE]
    /\ response' = [response EXCEPT ![i].eof = TRUE]
    /\ rpc' = [rpc EXCEPT ![i] = "returned"]
    /\ UNCHANGED <<range_header, file_size, source_len, start, end, current_pos,
                   bytes_sent, produced, chunks, failure, stream_limit>>
    /\ UNCHANGED streamVars
    /\ UNCHANGED <<codecVars, serverVars, calls>>

ConcurrentNext ==
    \E i \in Responses :
        \/ ConcurrentRead(i)
        \/ ConcurrentAdaptiveWrite(i)
        \/ ConcurrentRangeWrite(i)
        \/ ConcurrentWriteRaises(i)
        \/ ConcurrentExhausted(i)

SpecConcurrent == ConcurrentInit /\ [][ConcurrentNext]_vars

\* The number of bytes in the first k chunks response i has read
BytesRead(i, k) ==
    LET S[j \in 0..k] == IF j = 0 THEN 0 ELSE S[j - 1] + chunks[i][j][2]
    IN  S[k]

\* C32: independent producers.  Whatever the interleaving of the two
\* responses' reads and writes: every chunk a response reads comes from its
\* own producer, at the offset where its own previous chunk ended, the first
\* at offset 0; a response reads chunk k+1 only after chunk k has been
\* written (or skipped, in a range response), so at most the chunk it holds
\* is not yet dealt with; and what each client has received is its own
\* correct byte sequence (the file from byte 0, or from byte `start`), the
\* whole of it when its response has returned.
C32_IndependentProducers ==
    \A i \in Responses :
        /\ \A k \in 1..Len(chunks[i]) : chunks[i][k][1] = BytesRead(i, k - 1)
        /\ produced[i] = BytesRead(i, Len(chunks[i]))
        /\ Len(chunks[i]) > 0 => chunks[i][1][1] = 0
        /\ rpc[i] = "reading" =>
              IF handler[i] = "stream"
              THEN Len(response[i].body) = produced[i]
              ELSE current_pos[i] = produced[i]
        /\ rpc[i] = "holding" =>
              IF handler[i] = "stream"
              THEN Len(response[i].body) = BytesRead(i, Len(chunks[i]) - 1)
              ELSE current_pos[i] = BytesRead(i, Len(chunks[i]) - 1)
        /\ \A k \in 1..Len(response[i].body) :
              response[i].body[k] = (start[i] + k) - 1
        /\ bytes_sent[i] = Len(response[i].body)
        /\ rpc[i] = "returned" =>
              IF handler[i] = "stream"
              THEN response[i].body = Chunk(0, file_size)
              ELSE response[i].body = Chunk(start[i], (end[i] - start[i]) + 1)

\* Response 1 has delivered the whole 4-byte file in chunks of 3 and 1 while
\* response 2, a range request for bytes 1-3, holds its second chunk having
\* written byte 1
C32_Witness ==
    /\ file_size = 4
    /\ handler = (1 :> "stream") @@ (2 :> "range")
    /\ end[2] = 3
    /\ rpc = (1 :> "returned") @@ (2 :> "holding")
    /\ chunks[1] = << <<0, 3>>, <<3, 1>> >>
    /\ chunks[2] = << <<0, 2>>, <<2, 1>> >>
    /\ response[1].body = <<0, 1, 2, 3>>
    /\ response[2].body = <<1>>

(***************************************************************************)
(* web_server.py: one /stream or /download request from its arrival to the *)
(* end of its handler: get_file_info, the three checks, and then the body  *)
(* sent by _adaptive_stream_file, by _handle_range_request_optimized or by *)
(* the loop of download_file.  The event loop runs every coroutine that is *)
(* ready, the producer of a file yields finitely many chunks or raises,    *)
(* and every write returns or raises.                                      *)
(***************************************************************************)

\* The Range headers of the requests that carry one: satisfiable, open-ended,
\* not satisfiable, and one that does not parse
TerminationRanges ==
    {BytesEq \o <<49, 45, 50>>, BytesEq \o <<48, 45>>, BytesEq \o <<57, 45>>,
     BytesEq \o <<120, 45, 49>>}

\* No request yet; the upstream message may have been replaced already
TerminationInit ==
    /\ SECRET_KEY = "your-secret-key-here"
    /\ cinput = <<>>
    /\ CodecIdle
    /\ now = 0
    /\ file_cache = <<>>
    /\ req = IdleRequest
    /\ resolve_calls = 0
    /\ edits \in 0..MaxEdits
    /\ RangeIdle
    /\ StreamIdle
    /\ StampedeIdle

\* stream_file and download_file past their three checks: the handler goes on
\* with the file_info it has and the request's Range header.  The file's size
\* is counted in the unit of MAX_FILE_SIZE, one block of the producer each;
\* the producer holds the whole file or ends one block early
HandOver ==
    /\ req.pc \in {"range", "adaptive", "download_body"}
    /\ rpc = "none"
    /\ LET info == req.file_info[1]
       IN  /\ handler' = req.route
           /\ file_name' = info.file_name
           /\ file_type' = info.file_type
           /\ url_filename' = Codes(req.filename)
           /\ file_size' = info.file_size
           /\ source_len' \in {info.file_size - 1, info.file_size}
    /\ range_header' \in IF req.pc = "range" THEN TerminationRanges ELSE {NoRangeHeader}
    /\ rpc' = IF req.route = "stream" THEN "decoded" ELSE "entry"
    /\ req' = [req EXCEPT !.pc = "body"]
    /\ UNCHANGED <<now, file_cache, resolve_calls, edits>>
    /\ UNCHANGED <<start, end, current_pos, bytes_sent, response, produced, chunks,
                   opened, released, failure, stream_limit>>
    /\ UNCHANGED <<grain, MAX_CHUNK_SIZE, stream_settings, current_chunk_size,
                   buffer_sent, chunk_sizes, yields>>
    /\ UNCHANGED <<codecVars, calls>>

TerminationNext ==
    \/ Receive
    \/ HandlerEnter
    \/ UpstreamReturn
    \/ UpstreamRaises
    \/ HandOver
    \/ Dispatch
    \/ DownloadPrepare
    \/ RangeParse
    \/ RangeChunk
    \/ RangeEmptyChunk
    \/ RangeExhausted
    \/ RangeSourceRaises
    \/ RangeWriteRaises
    \/ AdaptiveChunk
    \/ DownloadChunk
    \/ SendExhausted
    \/ SendSourceRaises
    \/ SendWriteRaises
    \/ ProducerFinalized

\* The steps of a request that has arrived
HandlerStep ==
    \/ HandlerEnter
    \/ UpstreamRaises
    \/ UpstreamReturn
    \/ HandOver
    \/ Dispatch
    \/ DownloadPrepare
    \/ RangeParse
    \/ RangeChunk
    \/ RangeEmptyChunk
    \/ RangeExhausted
    \/ RangeSourceRaises
    \/ RangeWriteRaises
    \/ AdaptiveChunk
    \/ DownloadChunk
    \/ SendExhausted
    \/ SendSourceRaises
    \/ SendWriteRaises
    \/ ProducerFinalized

\* A step of the request's handler that can be taken is taken sooner or
\* later: get_messages returns or raises, the producer yields, ends or
\* raises, a write returns or raises, and the event loop resumes the handler
SpecTermination ==
    TerminationInit /\ [][TerminationNext]_vars /\ WF_vars(HandlerStep)

\* The request has been answered: an HTTP error or redirect was raised by the
\* checks, or the body handler has returned its response or raised
Terminal ==
    \/ req.pc = "done"
    \/ req.pc = "body" /\ rpc \in {"returned", "raised"}

\* The terminal states, as the handlers produce them
TerminalKinds ==
    [NotFound |-> req.pc = "done" /\ req.status = 404,
     TooLarge |-> req.pc = "done" /\ req.status = 400,
     Redirect |-> req.pc = "done" /\ req.status = 302,
     InvalidRange |-> req.pc = "body" /\ rpc = "returned" /\ response.status = 416,
     Completed |-> req.pc = "body" /\ rpc = "returned" /\ response.status \in {200, 206}
                      /\ response.eof,
     ClientDisconnected |-> req.pc = "body" /\ rpc = "raised" /\ failure \in WriteFailures,
     UpstreamError |-> req.pc = "body" /\ rpc = "raised" /\ failure \notin WriteFailures]

\* C38: termination.  Every /stream and /download request that has arrived
\* eventually reaches a terminal state; in a terminal state exactly one of
\* Completed, ClientDisconnected, NotFound, TooLarge, InvalidRange,
\* UpstreamError (the handler's HTTP 500) and redirect holds; and a request
\* that has reached a terminal state stays in it, with the same outcome.
C38_Termination ==
    /\ (req.pc = "received" /\ req.route \in {"stream", "download"}) ~> Terminal
    /\ []((Terminal /\ req.route \in {"stream", "download"}) =>
            Cardinality({k \in DOMAIN TerminalKinds : TerminalKinds[k]}) = 1)
    /\ [][Terminal =>
            /\ Terminal'
            /\ TerminalKinds' = TerminalKinds
            /\ req' = req
            /\ response' = response]_vars

\* A range request for bytes 1-2 of the video has been answered with its two
\* bytes, read in one chunk of 3: Completed
C38_Witness ==
    /\ req.pc = "body"
    /\ req.route = "stream"
    /\ req.range
    /\ range_header = BytesEq \o <<49, 45, 50>>
    /\ rpc = "returned"
    /\ response.status = 206
    /\ response.body = <<1, 2>>
    /\ response.eof
    /\ chunks = <<3>>
    /\ TerminalKinds.Completed

----------------------------------------------------------------------------
(* web_server.py: FileServer.get_file_info called by several requests for   *)
(* the identifier "1_2" side by side, on an empty cache.  The calls         *)
(* interleave only at "await self.bot.get_messages": all else in            *)
(* get_file_info runs without suspension on the one event loop.             *)

\* How many requests are in flight side by side
MaxConcurrent == 3

\* For how many steps of 300 s the clock is followed while they are
MaxWait == 2

Callers == 1..MaxConcurrent

StampedeInit ==
    /\ SECRET_KEY = "your-secret-key-here"
    /\ cinput = <<>>
    /\ CodecIdle
    /\ ServerIdle
    /\ RangeIdle
    /\ StreamIdle
    /\ calls = [i \in Callers |->
                  [pc |-> "idle", upstream |-> "not_called", result |-> None,
                   rank |-> 0, at |-> 0]]

\* How many of the calls have returned
Finished == Cardinality({i \in Callers : calls[i].pc = "returned"})

\* Call i enters get_file_info: a fresh cache entry is returned at once, else
\* the call suspends at bot.get_messages
StampedeEnter(i) ==
    /\ calls[i].pc = "idle"
    /\ IF CacheHit(file_cache, RawId, now)
       THEN /\ calls' = [calls EXCEPT ![i] =
                            [@ EXCEPT !.pc = "returned",
                                      !.result = Some(file_cache[RawId].data),
                                      !.rank = Finished + 1, !.at = now]]
            /\ UNCHANGED resolve_calls
       ELSE /\ ParseFileId(RawId) # Exc
            /\ calls' = [calls EXCEPT ![i] = [@ EXCEPT !.pc = "resolving"]]
            /\ resolve_calls' = resolve_calls + 1
    /\ UNCHANGED <<now, file_cache, req, edits>>
    /\ UNCHANGED <<codecVars, rangeVars, streamVars>>

\* bot.get_messages returns to call i: extract the metadata, write the cache
\* entry, return
StampedeReturn(i) ==
    /\ calls[i].pc = "resolving"
    /\ LET message == GetMessages(ParseFileId(RawId)[1], edits)
       IN  IF ~HasFile(message)
           THEN /\ calls' = [calls EXCEPT ![i] =
                                [@ EXCEPT !.pc = "returned", !.upstream = "nomedia",
                                          !.rank = Finished + 1, !.at = now]]
                /\ UNCHANGED file_cache
           ELSE /\ calls' = [calls EXCEPT ![i] =
                                [@ EXCEPT !.pc = "returned", !.upstream = "message",
                                          !.result = Some(extract_file_metadata(message)),
                                          !.rank = Finished + 1, !.at = now]]
                /\ file_cache' = CachePut(file_cache, RawId,
                                          extract_file_metadata(message), now)
    /\ UNCHANGED <<now, req, resolve_calls, edits>>
    /\ UNCHANGED <<codecVars, rangeVars, streamVars>>

\* bot.get_messages raises in call i: "except Exception: return None"
StampedeRaises(i) ==
    /\ calls[i].pc = "resolving"
    /\ calls' = [calls EXCEPT ![i] =
                    [@ EXCEPT !.pc = "returned", !.upstream = "raised",
                              !.rank = Finished + 1, !.at = now]]
    /\ UNCHANGED <<now, file_cache, req, resolve_calls, edits>>
    /\ UNCHANGED <<codecVars, rangeVars, streamVars>>

\* Time passes while calls are suspended
StampedeTick ==
    /\ now < MaxWait * 300
    /\ now' = now + 300
    /\ UNCHANGED <<file_cache, req, resolve_calls, edits>>
    /\ UNCHANGED <<codecVars, rangeVars, streamVars, calls>>

StampedeNext ==
    \/ \E i \in Callers : StampedeEnter(i)
    \/ \E i \in Callers : StampedeReturn(i)
    \/ \E i \in Callers : StampedeRaises(i)
    \/ StampedeTick
    \/ UpstreamEdit

SpecStampede == StampedeInit /\ [][StampedeNext]_vars

\* The calls that got a message from the Media Source and wrote the cache
Writers == {i \in Callers : calls[i].pc = "returned" /\ calls[i].upstream = "message"}

\* C20: cache stampede.  Requests for the same never-before-seen identifier
\* that are suspended at the upstream resolve side by side each call the
\* Media Source (up to N calls for N requests); every one of them returns the
\* metadata (unless its own upstream call fails); and once all have finished
\* the cache holds exactly one entry for the key, the one written by the last
\* of them to complete.
C20_CacheStampede ==
    /\ resolve_calls <= MaxConcurrent
    /\ resolve_calls >= Cardinality({i \in Callers : calls[i].pc = "resolving"})
    /\ \A i \in Callers :
          (calls[i].pc = "returned" /\ calls[i].upstream # "raised") =>
              /\ calls[i].result # None
              /\ \E e \in 0..edits :
                    calls[i].result[1] = extract_file_metadata(GetMessages(<<1, 2>>, e))
    /\ DOMAIN file_cache \subseteq {RawId}
    /\ Writers # {} =>
          LET last == CHOOSE i \in Writers : \A j \in Writers : calls[j].rank <= calls[i].rank
          IN  /\ DOMAIN file_cache = {RawId}
              /\ file_cache[RawId] =
                    [data |-> calls[last].result[1], cached_at |-> calls[last].at]

\* All the requests were suspended at the upstream resolve together (as many
\* resolve calls as requests); the message changed and time passed between
\* their completions, and the cache holds what the last one to complete wrote
C20_Witness ==
    /\ \A i \in Callers : calls[i].pc = "returned" /\ calls[i].upstream = "message"
    /\ resolve_calls = MaxConcurrent
    /\ calls[1].rank = MaxConcurrent
    /\ calls[1].result # calls[2].result
    /\ calls[1].at > calls[2].at
    /\ calls[2].at = 0
    /\ file_cache[RawId] = [data |-> calls[1].result[1], cached_at |-> calls[1].at]

====
